---------------------------- MODULE Spec2Model ----------------------------
(***************************************************************************)
(* Guest GPU memory manager (Tegra::MemoryManager) of yuzu:                *)
(* src/video_core/memory_manager.cpp.                                      *)
(*                                                                         *)
(* The VMA map (std::map keyed by base) is a function from its keys to VMA *)
(* records; the page table is three arrays indexed by page number.  Host   *)
(* pointers, guest-CPU addresses and GPU addresses are integers; 0 is the  *)
(* null pointer.  A failed ASSERT aborts the process: `asserted' names the *)
(* assertion and no operation is enabled afterwards.                       *)
(***************************************************************************)
EXTENDS Integers, Sequences, FiniteSets, TLC

VARIABLES vma_map, pointers, attributes, backing_addr, device_mapped,
          asserted, hist, recording, budget, io_left, host_mem, out_buffer,
          events,
          draw_counter, scheduler_call

vars == <<vma_map, pointers, attributes, backing_addr, device_mapped,
          asserted, hist, recording, budget, io_left, host_mem, out_buffer,
          events,
          draw_counter, scheduler_call>>

---------------------------------------------------------------------------
(* Address-space constants (memory_manager.h), scaled down.                *)

page_bits == 1
address_space_width == 3
address_space_base == 0

page_size == 2 ^ page_bits
address_space_end == 2 ^ address_space_width
num_pages == address_space_end \div page_size

(* Largest size, in pages, passed to an operation, and the longest         *)
(* recorded history of operations since construction.                      *)
MaxOpPages == 2
MaxHist == 3

(* For the block operations: the number of map operations that set the    *)
(* manager up, the number of block operations that follow, and the         *)
(* largest byte count of a block operation.                                *)
MaxSetup == 3
MaxBlockOps == 1
MaxBlockBytes == 3

Pages == 0 .. num_pages - 1
GpuAddrs == 0 .. address_space_end - 1
AlignedGpuAddrs == {a \in GpuAddrs : a % page_size = 0}
(* Byte sizes passed to the operations: whole pages, and one size that     *)
(* AlignUp has to round.                                                   *)
Sizes == {page_size - 1} \cup {k * page_size : k \in 1 .. MaxOpPages}

(* Guest-CPU addresses handed to MapBufferEx (two neighbouring guest       *)
(* pages), and the host pointer the memory bus returns for a guest address *)
(* (Core::Memory::GetPointer): guest memory is one contiguous host block.  *)
CpuAddrs == {8 * page_size, 9 * page_size}
HostPtrOf(cpu_addr) == 100 + cpu_addr

(* reinterpret_cast of a host pointer to a cache address. *)
ToCacheAddr(host_ptr) == host_ptr

NullPtr == 0
NoAssert == "none"
EndIt == -1     \* vma_map.end()
NullIt == -2    \* a value-initialised iterator, VMAIter{}

Max2(a, b) == IF a > b THEN a ELSE b
SetMin(S) == CHOOSE x \in S : \A y \in S : x <= y
SetMax(S) == CHOOSE x \in S : \A y \in S : x >= y

(* Common::AlignUp(value, size) *)
AlignUp(value, size) == value + ((size - (value % size)) % size)

---------------------------------------------------------------------------
(* VirtualMemoryArea with its default member initialisers.                 *)

DefaultVMA ==
    [base |-> 0, size |-> 0, type |-> "Unmapped", offset |-> 0,
     backing_memory |-> NullPtr, backing_addr |-> 0]

(* The manager's own state as one record, threaded through the calls.      *)
State(m, ptrs, attrs, backs, a) ==
    [vma_map |-> m, pointers |-> ptrs, attributes |-> attrs,
     backing_addr |-> backs, asserted |-> a]

Cur == State(vma_map, pointers, attributes, backing_addr, asserted)

Ok(s) == s.asserted = NoAssert

(* A failing ASSERT aborts the process at that point.                      *)
Fail(s, name) == [s EXCEPT !.asserted = name]

(* Sequencing: evaluate r once, then continue with F on its value.         *)
Then(r, F(_)) == CHOOSE out \in {F(x) : x \in {r}} : TRUE

(* Iterator arithmetic on the ordered map.                                 *)
StdNext(m, k) ==
    IF \E j \in DOMAIN m : j > k THEN SetMin({j \in DOMAIN m : j > k}) ELSE EndIt

StdPrev(m, k) == SetMax({j \in DOMAIN m : j < k})

MapBegin(m) == SetMin(DOMAIN m)

IsAddressValid(s, addr) == (addr \div page_size) < num_pages

GpuToCpuAddress(s, addr) ==
    IF ~IsAddressValid(s, addr) THEN 0
    ELSE LET cpu_addr == s.backing_addr[addr \div page_size]
         IN IF cpu_addr # 0 THEN cpu_addr + (addr % page_size) ELSE 0

GetPointer(s, addr) ==
    IF ~IsAddressValid(s, addr) THEN NullPtr
    ELSE LET page_pointer == s.pointers[addr \div page_size]
         IN IF page_pointer # NullPtr THEN page_pointer + (addr % page_size)
            ELSE NullPtr

---------------------------------------------------------------------------
(* Page-table writers.  base and size of MapPages are in pages.            *)

(* MapPages without `memory += page_size' in its loop. *)
MapPages_NoAdvance(s, base, size, memory, type, backing) ==
    IF base + size > num_pages THEN Fail(s, "MapPages: out of range mapping")
    ELSE [s EXCEPT
            !.attributes = [p \in Pages |->
                IF p >= base /\ p < base + size THEN type ELSE s.attributes[p]],
            !.pointers = [p \in Pages |->
                IF p >= base /\ p < base + size
                THEN (IF memory = NullPtr THEN NullPtr
                      ELSE memory)
                ELSE s.pointers[p]],
            !.backing_addr = [p \in Pages |->
                IF p >= base /\ p < base + size
                THEN (IF memory = NullPtr THEN backing
                      ELSE backing + (p - base) * page_size)
                ELSE s.backing_addr[p]]]

MapPages(s, base, size, memory, type, backing) ==
    IF base + size > num_pages THEN Fail(s, "MapPages: out of range mapping")
    ELSE [s EXCEPT
            !.attributes = [p \in Pages |->
                IF p >= base /\ p < base + size THEN type ELSE s.attributes[p]],
            !.pointers = [p \in Pages |->
                IF p >= base /\ p < base + size
                THEN (IF memory = NullPtr THEN NullPtr
                      ELSE memory + (p - base) * page_size)
                ELSE s.pointers[p]],
            !.backing_addr = [p \in Pages |->
                IF p >= base /\ p < base + size
                THEN (IF memory = NullPtr THEN backing
                      ELSE backing + (p - base) * page_size)
                ELSE s.backing_addr[p]]]

MapMemoryRegion(s, base, size, target, backing) ==
    IF size % page_size # 0
    THEN Fail(s, "MapMemoryRegion: non-page aligned size")
    ELSE IF base % page_size # 0
    THEN Fail(s, "MapMemoryRegion: non-page aligned base")
    ELSE MapPages(s, base \div page_size, size \div page_size, target,
                  "Memory", backing)

UnmapRegion(s, base, size) ==
    IF size % page_size # 0
    THEN Fail(s, "UnmapRegion: non-page aligned size")
    ELSE IF base % page_size # 0
    THEN Fail(s, "UnmapRegion: non-page aligned base")
    ELSE MapPages(s, base \div page_size, size \div page_size, NullPtr,
                  "Unmapped", 0)

UpdatePageTableForVMA(s, vma) ==
    CASE vma.type = "Unmapped" -> UnmapRegion(s, vma.base, vma.size)
      [] vma.type = "Allocated" ->
            MapMemoryRegion(s, vma.base, vma.size, NullPtr, vma.backing_addr)
      [] vma.type = "Mapped" ->
            MapMemoryRegion(s, vma.base, vma.size, vma.backing_memory,
                            vma.backing_addr)

---------------------------------------------------------------------------
(* Interval engine.                                                        *)

(* The leading ASSERT(base + size == next.base) of CanBeMergedWith. *)
Adjacent(a, next) == a.base + a.size = next.base

AdjacentAssert == "CanBeMergedWith: base + size == next.base"

(* The boolean result of VirtualMemoryArea::CanBeMergedWith. *)
CanBeMergedWith(a, next) ==
    IF a.type # next.type THEN FALSE
    ELSE IF a.type = "Allocated" /\ a.offset + a.size # next.offset THEN FALSE
    ELSE IF a.type = "Mapped" /\ a.backing_memory + a.size # next.backing_memory
         THEN FALSE
    ELSE TRUE

FindVMA(m, target) ==
    IF target >= address_space_end THEN EndIt
    ELSE SetMax({k \in DOMAIN m : k <= target})

(* Result of a call that returns an iterator. *)
Ret(s, it) == [s |-> s, it |-> it]

(* SplitTail without `new_vma.size -= offset_in_vma'. *)
SplitTail_KeepsSize(old_vma, offset_in_vma) ==
    [old_vma EXCEPT !.base = old_vma.base + offset_in_vma]

(* SplitTail without `new_vma.offset += offset_in_vma'. *)
SplitTail_KeepsOffset(old_vma, offset_in_vma) ==
    [old_vma EXCEPT !.base = old_vma.base + offset_in_vma,
                    !.size = old_vma.size - offset_in_vma]

(* The second half made by SplitVMA. *)
SplitTail(old_vma, offset_in_vma) ==
    LET new0 == [old_vma EXCEPT !.base = old_vma.base + offset_in_vma,
                                !.size = old_vma.size - offset_in_vma]
    IN CASE new0.type = "Unmapped" -> new0
         [] new0.type = "Allocated" ->
               [new0 EXCEPT !.offset = new0.offset + offset_in_vma]
         [] new0.type = "Mapped" ->
               [new0 EXCEPT !.backing_memory = new0.backing_memory + offset_in_vma]

SplitVMA(s, vma_handle, offset_in_vma) ==
    LET m == s.vma_map
        old_vma == [m[vma_handle] EXCEPT !.size = offset_in_vma]
        new_vma == SplitTail(m[vma_handle], offset_in_vma)
    IN IF ~(offset_in_vma < m[vma_handle].size)
       THEN Ret(Fail(s, "SplitVMA: offset_in_vma < old_vma.size"), EndIt)
       ELSE IF ~(offset_in_vma > 0)
       THEN Ret(Fail(s, "SplitVMA: offset_in_vma > 0"), EndIt)
       ELSE IF ~Adjacent(old_vma, new_vma)
       THEN Ret(Fail([s EXCEPT !.vma_map[vma_handle] = old_vma], AdjacentAssert),
                EndIt)
       ELSE IF ~CanBeMergedWith(old_vma, new_vma)
       THEN Ret(Fail([s EXCEPT !.vma_map[vma_handle] = old_vma],
                     "SplitVMA: old_vma.CanBeMergedWith(new_vma)"), EndIt)
       ELSE Ret([s EXCEPT !.vma_map =
                    [k \in DOMAIN m \cup {new_vma.base} |->
                        IF k = vma_handle THEN old_vma
                        ELSE IF k \in DOMAIN m THEN m[k]
                        ELSE new_vma]],
                new_vma.base)

(* First half of MergeAdjacent: absorb the next VMA into iter. *)
MergeNext(s, iter) ==
    LET m == s.vma_map
        next_vma == StdNext(m, iter)
    IN IF next_vma = EndIt THEN s
       ELSE IF ~Adjacent(m[iter], m[next_vma]) THEN Fail(s, AdjacentAssert)
       ELSE IF CanBeMergedWith(m[iter], m[next_vma])
       THEN [s EXCEPT !.vma_map =
               [k \in DOMAIN m \ {next_vma} |->
                   IF k = iter
                   THEN [m[iter] EXCEPT !.size = m[iter].size + m[next_vma].size]
                   ELSE m[k]]]
       ELSE s

(* Second half of MergeAdjacent: absorb iter into the previous VMA. *)
MergePrev(s, iter) ==
    LET m == s.vma_map
        prev_vma == StdPrev(m, iter)
    IN IF iter = MapBegin(m) THEN Ret(s, iter)
       ELSE IF ~Adjacent(m[prev_vma], m[iter]) THEN Ret(Fail(s, AdjacentAssert), EndIt)
       ELSE IF CanBeMergedWith(m[prev_vma], m[iter])
       THEN Ret([s EXCEPT !.vma_map =
                   [k \in DOMAIN m \ {iter} |->
                       IF k = prev_vma
                       THEN [m[prev_vma] EXCEPT
                               !.size = m[prev_vma].size + m[iter].size]
                       ELSE m[k]]],
                prev_vma)
       ELSE Ret(s, iter)

MergeAdjacent(s, iter) ==
    Then(MergeNext(s, iter), LAMBDA s1 :
        IF ~Ok(s1) THEN Ret(s1, EndIt) ELSE MergePrev(s1, iter))

(* Allocate without `vma.backing_addr = 0'. *)
Allocate_KeepsBackingAddr(s, vma_handle) ==
    Then([s EXCEPT !.vma_map[vma_handle] =
            [@ EXCEPT !.type = "Allocated", !.backing_memory = NullPtr]], LAMBDA s1 :
    Then(UpdatePageTableForVMA(s1, s1.vma_map[vma_handle]), LAMBDA s2 :
        IF ~Ok(s2) THEN Ret(s2, EndIt) ELSE MergeAdjacent(s2, vma_handle)))

(* Allocate giving the range back to the free state. *)
Allocate_ToUnmapped(s, vma_handle) ==
    Then([s EXCEPT !.vma_map[vma_handle] =
            [@ EXCEPT !.type = "Unmapped", !.backing_addr = 0,
                      !.backing_memory = NullPtr]], LAMBDA s1 :
    Then(UpdatePageTableForVMA(s1, s1.vma_map[vma_handle]), LAMBDA s2 :
        IF ~Ok(s2) THEN Ret(s2, EndIt) ELSE MergeAdjacent(s2, vma_handle)))

(* Allocate without `UpdatePageTableForVMA(vma)'. *)
Allocate_KeepsPageTable(s, vma_handle) ==
    Then([s EXCEPT !.vma_map[vma_handle] =
            [@ EXCEPT !.type = "Allocated", !.backing_addr = 0,
                      !.backing_memory = NullPtr]], LAMBDA s1 :
        MergeAdjacent(s1, vma_handle))

Allocate(s, vma_handle) ==
    Then([s EXCEPT !.vma_map[vma_handle] =
            [@ EXCEPT !.type = "Allocated", !.backing_addr = 0,
                      !.backing_memory = NullPtr]], LAMBDA s1 :
    Then(UpdatePageTableForVMA(s1, s1.vma_map[vma_handle]), LAMBDA s2 :
        IF ~Ok(s2) THEN Ret(s2, EndIt) ELSE MergeAdjacent(s2, vma_handle)))

CarveVMA(s, base, size) ==
    LET vma_handle == FindVMA(s.vma_map, base)
        vma == s.vma_map[vma_handle]
        start_in_vma == base - vma.base
        end_in_vma == start_in_vma + size
    IN IF size % page_size # 0
       THEN Ret(Fail(s, "CarveVMA: non-page aligned size"), EndIt)
       ELSE IF base % page_size # 0
       THEN Ret(Fail(s, "CarveVMA: non-page aligned base"), EndIt)
       ELSE IF vma_handle = EndIt THEN Ret(s, NullIt)
       ELSE IF vma.type = "Mapped" THEN Ret(s, vma_handle)
       ELSE IF ~(end_in_vma <= vma.size)
       THEN Ret(Fail(s, "CarveVMA: end_in_vma <= vma.size"), EndIt)
       ELSE Then(IF end_in_vma < vma.size
                 THEN SplitVMA(s, vma_handle, end_in_vma).s
                 ELSE s, LAMBDA s1 :
            IF ~Ok(s1) THEN Ret(s1, EndIt)
            ELSE IF start_in_vma # 0 THEN SplitVMA(s1, vma_handle, start_in_vma)
            ELSE Ret(s1, vma_handle))

(* AllocateMemory without the final Allocate(vma). *)
AllocateMemory_NoAllocate(s, target, offset, size) ==
    Then(CarveVMA(s, target, size), LAMBDA r :
        IF ~Ok(r.s) THEN r
        ELSE IF r.it = NullIt
        THEN Ret(Fail(r.s, "AllocateMemory: dereference of a null iterator"), EndIt)
        ELSE IF ~(r.s.vma_map[r.it].size = size)
        THEN Ret(Fail(r.s, "AllocateMemory: vma.size == size"), EndIt)
        ELSE Then([r.s EXCEPT !.vma_map[r.it].offset = offset], LAMBDA s1 :
                Ret(s1, r.it)))

AllocateMemory(s, target, offset, size) ==
    Then(CarveVMA(s, target, size), LAMBDA r :
        IF ~Ok(r.s) THEN r
        ELSE IF r.it = NullIt
        THEN Ret(Fail(r.s, "AllocateMemory: dereference of a null iterator"), EndIt)
        ELSE IF ~(r.s.vma_map[r.it].size = size)
        THEN Ret(Fail(r.s, "AllocateMemory: vma.size == size"), EndIt)
        ELSE Then([r.s EXCEPT !.vma_map[r.it].offset = offset], LAMBDA s1 :
                Allocate(s1, r.it)))

MapBackingMemory(s, target, memory, size, backing) ==
    Then(CarveVMA(s, target, size), LAMBDA r :
        IF ~Ok(r.s) THEN r
        ELSE IF r.it = NullIt
        THEN Ret(Fail(r.s, "MapBackingMemory: dereference of a null iterator"), EndIt)
        ELSE IF ~(r.s.vma_map[r.it].size = size)
        THEN Ret(Fail(r.s, "MapBackingMemory: vma.size == size"), EndIt)
        ELSE Then([r.s EXCEPT !.vma_map[r.it] =
                     [@ EXCEPT !.type = "Mapped", !.backing_memory = memory,
                               !.backing_addr = backing]], LAMBDA s1 :
             Then(UpdatePageTableForVMA(s1, s1.vma_map[r.it]), LAMBDA s2 :
                IF ~Ok(s2) THEN Ret(s2, EndIt) ELSE MergeAdjacent(s2, r.it))))

(* The second split of CarveVMARange, at target_end. *)
CarveRangeEnd(s, target_end, begin_vma) ==
    LET end_vma == FindVMA(s.vma_map, target_end)
    IN IF end_vma # EndIt /\ target_end # s.vma_map[end_vma].base
       THEN Ret(SplitVMA(s, end_vma, target_end - s.vma_map[end_vma].base).s,
                begin_vma)
       ELSE Ret(s, begin_vma)

(* CarveVMARange that splits at target before it looks for Unmapped VMAs. *)
CarveVMARange_SplitsFirst(s, target, size) ==
    LET m == s.vma_map
        begin_vma == FindVMA(m, target)
    IN IF begin_vma # EndIt /\ target # m[begin_vma].base
       THEN Ret(SplitVMA(s, begin_vma, target - m[begin_vma].base).s, NullIt)
       ELSE Ret(s, NullIt)

CarveVMARange(s, target, size) ==
    LET m == s.vma_map
        target_end == target + size
        begin_vma == FindVMA(m, target)
    IN IF size % page_size # 0
       THEN Ret(Fail(s, "CarveVMARange: non-page aligned size"), EndIt)
       ELSE IF target % page_size # 0
       THEN Ret(Fail(s, "CarveVMARange: non-page aligned base"), EndIt)
       ELSE IF ~(target_end >= target)
       THEN Ret(Fail(s, "CarveVMARange: target_end >= target"), EndIt)
       ELSE IF ~(size > 0)
       THEN Ret(Fail(s, "CarveVMARange: size > 0"), EndIt)
       ELSE IF begin_vma # EndIt /\
               \E k \in DOMAIN m :
                   k >= begin_vma /\ k < target_end /\ m[k].type = "Unmapped"
       THEN Ret(s, NullIt)
       ELSE IF begin_vma = EndIt
       THEN Ret(Fail(s, "CarveVMARange: dereference of end()"), EndIt)
       ELSE Then(IF target # m[begin_vma].base
                 THEN SplitVMA(s, begin_vma, target - m[begin_vma].base)
                 ELSE Ret(s, begin_vma), LAMBDA r1 :
            IF ~Ok(r1.s) THEN r1 ELSE CarveRangeEnd(r1.s, target_end, r1.it))

(* The loop of UnmapRange: vma = std::next(Allocate(vma)). *)
RECURSIVE UnmapLoop(_, _, _)
UnmapLoop(s, vma, target_end) ==
    IF vma # EndIt /\ s.vma_map[vma].base < target_end
    THEN Then(Allocate(s, vma), LAMBDA r :
            IF ~Ok(r.s) THEN r.s
            ELSE Then(StdNext(r.s.vma_map, r.it), LAMBDA nxt :
                    UnmapLoop(r.s, nxt, target_end)))
    ELSE s

UnmapRange(s, target, size) ==
    Then(CarveVMARange(s, target, size), LAMBDA r :
        IF ~Ok(r.s) THEN r.s
        ELSE IF r.it = NullIt
        THEN Fail(r.s, "UnmapRange: dereference of a null iterator")
        ELSE Then(UnmapLoop(r.s, r.it, target + size), LAMBDA s1 :
                IF ~Ok(s1) THEN s1
                ELSE IF ~(s1.vma_map[FindVMA(s1.vma_map, target)].size >= size)
                THEN Fail(s1, "UnmapRange: FindVMA(target)->size >= size")
                ELSE s1))

(* The predicate of the find_if in FindFreeRegion. *)
IsFreeFor(vma, region_start, size) ==
    /\ vma.type = "Unmapped"
    /\ vma.base + vma.size > region_start
    /\ vma.base + vma.size >= region_start + size

FindFreeRegion(s, region_start, size) ==
    LET m == s.vma_map
        found == {k \in DOMAIN m : IsFreeFor(m[k], region_start, size)}
    IN IF found = {} THEN 0
       ELSE Max2(region_start, m[SetMin(found)].base)

---------------------------------------------------------------------------
(* External collaborators: the kernel's DeviceMapped attribute (kept per   *)
(* guest page) and the rasterizer callouts made by an operation.           *)

CpuPagesOf(cpu_addr, size) ==
    {a - (a % page_size) : a \in cpu_addr .. cpu_addr + size - 1}

SetMemoryAttribute(dm, cpu_addr, size, set) ==
    IF set THEN dm \cup CpuPagesOf(cpu_addr, size)
    ELSE dm \ CpuPagesOf(cpu_addr, size)

Call(fn, addr, size) == [fn |-> fn, addr |-> addr, size |-> size]

NoRet == EndIt - 1     \* the operation aborted and returned nothing

(* Result of a public operation: new manager state, returned address,     *)
(* rasterizer callouts in order, new DeviceMapped set.                     *)
OpResult(s, ret, calls, dm) ==
    [s |-> s, ret |-> IF Ok(s) THEN ret ELSE NoRet, calls |-> calls, dm |-> dm]

---------------------------------------------------------------------------
(* Public operations.                                                      *)

\* GPUVAddr AllocateSpace(u64 size, u64 align)
AllocateSpaceOp(s, dm, size) ==
    LET aligned_size == AlignUp(size, page_size)
    IN Then(FindFreeRegion(s, address_space_base, aligned_size), LAMBDA gpu_addr :
       Then(AllocateMemory(s, gpu_addr, 0, aligned_size), LAMBDA r :
            OpResult(r.s, gpu_addr, <<>>, dm)))

\* GPUVAddr AllocateSpace(GPUVAddr gpu_addr, u64 size, u64 align)
AllocateSpaceAtOp(s, dm, gpu_addr, size) ==
    LET aligned_size == AlignUp(size, page_size)
    IN Then(AllocateMemory(s, gpu_addr, 0, aligned_size), LAMBDA r :
            OpResult(r.s, gpu_addr, <<>>, dm))

\* GPUVAddr MapBufferEx(VAddr cpu_addr, u64 size)
MapBufferExOp(s, dm, cpu_addr, size) ==
    LET aligned_size == AlignUp(size, page_size)
    IN Then(FindFreeRegion(s, address_space_base, aligned_size), LAMBDA gpu_addr :
       Then(MapBackingMemory(s, gpu_addr, HostPtrOf(cpu_addr), aligned_size,
                             cpu_addr), LAMBDA r :
            OpResult(r.s, gpu_addr, <<>>,
                     IF Ok(r.s) THEN SetMemoryAttribute(dm, cpu_addr, size, TRUE)
                     ELSE dm)))

\* GPUVAddr MapBufferEx(VAddr cpu_addr, GPUVAddr gpu_addr, u64 size)
MapBufferExAtOp(s, dm, cpu_addr, gpu_addr, size) ==
    LET aligned_size == AlignUp(size, page_size)
    IN IF gpu_addr % page_size # 0
       THEN OpResult(Fail(s, "MapBufferEx: (gpu_addr & page_mask) == 0"),
                     gpu_addr, <<>>, dm)
       ELSE Then(MapBackingMemory(s, gpu_addr, HostPtrOf(cpu_addr), aligned_size,
                                  cpu_addr), LAMBDA r :
            OpResult(r.s, gpu_addr, <<>>,
                     IF Ok(r.s) THEN SetMemoryAttribute(dm, cpu_addr, size, TRUE)
                     ELSE dm))

\* GPUVAddr UnmapBuffer(GPUVAddr gpu_addr, u64 size)
UnmapBufferOp(s, dm, gpu_addr, size) ==
    LET aligned_size == AlignUp(size, page_size)
        cache_addr == ToCacheAddr(GetPointer(s, gpu_addr))
        cpu_addr == GpuToCpuAddress(s, gpu_addr)
        calls == <<Call("FlushAndInvalidateRegion", cache_addr, aligned_size)>>
    IN IF gpu_addr % page_size # 0
       THEN OpResult(Fail(s, "UnmapBuffer: (gpu_addr & page_mask) == 0"),
                     gpu_addr, <<>>, dm)
       ELSE IF cpu_addr = 0
       THEN OpResult(Fail(s, "UnmapBuffer: cpu_addr"), gpu_addr, <<>>, dm)
       ELSE Then(UnmapRange(s, gpu_addr, aligned_size), LAMBDA s1 :
            OpResult(s1, gpu_addr, calls,
                     IF Ok(s1) THEN SetMemoryAttribute(dm, cpu_addr, size, FALSE)
                     ELSE dm))

---------------------------------------------------------------------------
(* UnmapBuffer step by step: each entry is an effect with the manager      *)
(* state and the DeviceMapped set right after it.                          *)

\* void RasterizerVulkan::FlushAndInvalidateRegion(CacheAddr addr, u64 size)
FlushAndInvalidateRegion(addr, size) ==
    <<Call("FlushRegion", addr, size), Call("InvalidateRegion", addr, size)>>

Effect(what, s, dm) == [what |-> what, s |-> s, dm |-> dm]

(* The callouts of FlushAndInvalidateRegion as effects on an unchanged     *)
(* manager.                                                                *)
CalloutEffects(calls, s, dm) == [i \in DOMAIN calls |-> Effect(calls[i], s, dm)]

(* UnmapBuffer that unmaps the range before it calls the rasterizer.       *)
UnmapBufferSteps_UnmapFirst(s, dm, gpu_addr, size) ==
    LET aligned_size == AlignUp(size, page_size)
        cache_addr == ToCacheAddr(GetPointer(s, gpu_addr))
        cpu_addr == GpuToCpuAddress(s, gpu_addr)
    IN IF gpu_addr % page_size # 0 \/ cpu_addr = 0 THEN <<>>
       ELSE Then(UnmapRange(s, gpu_addr, aligned_size), LAMBDA s1 :
            <<Effect(Call("UnmapRange", gpu_addr, aligned_size), s1, dm)>>
            \o CalloutEffects(FlushAndInvalidateRegion(cache_addr, aligned_size), s1, dm)
            \o (IF Ok(s1)
                THEN <<Effect(Call("SetMemoryAttribute", cpu_addr, size), s1,
                              SetMemoryAttribute(dm, cpu_addr, size, FALSE))>>
                ELSE <<>>))

\* GPUVAddr UnmapBuffer(GPUVAddr gpu_addr, u64 size), effect by effect
UnmapBufferSteps(s, dm, gpu_addr, size) ==
    LET aligned_size == AlignUp(size, page_size)
        cache_addr == ToCacheAddr(GetPointer(s, gpu_addr))
        cpu_addr == GpuToCpuAddress(s, gpu_addr)
    IN IF gpu_addr % page_size # 0 \/ cpu_addr = 0 THEN <<>>
       ELSE Then(UnmapRange(s, gpu_addr, aligned_size), LAMBDA s1 :
            CalloutEffects(FlushAndInvalidateRegion(cache_addr, aligned_size), s, dm)
            \o <<Effect(Call("UnmapRange", gpu_addr, aligned_size), s1, dm)>>
            \o (IF Ok(s1)
                THEN <<Effect(Call("SetMemoryAttribute", cpu_addr, size), s1,
                              SetMemoryAttribute(dm, cpu_addr, size, FALSE))>>
                ELSE <<>>))

---------------------------------------------------------------------------
(* Block operations.  They read the page table of s and act on the host    *)
(* memory; b carries the host memory, the caller's destination buffer, the *)
(* rasterizer callouts and byte copies made so far in order, and the       *)
(* assertion that aborted the operation.  A memcpy through a pointer that  *)
(* is not inside guest host memory (a null page pointer plus an offset)    *)
(* faults and ends the process.                                            *)

(* Host memory behind the guest buffers: every byte starts with a value    *)
(* of its own.                                                             *)
HostAddrs ==
    {HostPtrOf(c) + o : c \in CpuAddrs, o \in 0 .. MaxOpPages * page_size - 1}

InitialHostMem == [h \in HostAddrs |-> h]

(* budget of a manager whose map operations are not counted. *)
Unlimited == -1

IO(mem) == [mem |-> mem, out |-> <<>>, ev |-> <<>>, asserted |-> NoAssert]

NullDeref == "memcpy: null pointer dereference"

(* Address of the caller's buffer (dest_buffer / src_buffer). *)
UserBuffer == 1000

(* A byte copy in the sequence of events. *)
Memcpy(dst, src, size) == [fn |-> "memcpy", addr |-> dst, src |-> src, size |-> size]

(* std::min answering its first argument: copy_amount ignores             *)
(* remaining_size.                                                         *)
Min2_IgnoresRemaining(a, b) == a

Min2(a, b) == IF a < b THEN a ELSE b

(* std::memcpy between two host ranges.  The ranges may overlap when two   *)
(* GPU pages share host memory; the result then depends on the order in    *)
(* which the library copies, which `kind' chooses.                         *)
MemcpyKinds == {"forward", "backward", "buffered"}

RECURSIVE CopyBytes(_, _, _, _)
CopyBytes(mem, dst, src, order) ==
    IF order = <<>> THEN mem
    ELSE CopyBytes([mem EXCEPT ![dst + Head(order)] = mem[src + Head(order)]],
                   dst, src, Tail(order))

MemcpyHost(mem, dst, src, n, kind) ==
    CASE kind = "forward" -> CopyBytes(mem, dst, src, [i \in 1 .. n |-> i - 1])
      [] kind = "backward" -> CopyBytes(mem, dst, src, [i \in 1 .. n |-> n - i])
      [] kind = "buffered" ->
            [h \in DOMAIN mem |->
                IF h >= dst /\ h < dst + n THEN mem[src + (h - dst)] ELSE mem[h]]

(* std::memcpy from the caller's buffer into host memory. *)
MemcpyFromBuffer(mem, dst, bytes) ==
    [h \in DOMAIN mem |->
        IF h >= dst /\ h < dst + Len(bytes) THEN bytes[h - dst + 1] ELSE mem[h]]

(* The source of a WriteBlock: the caller's buffer with its bytes, or host *)
(* memory at ptr (CopyBlock).                                              *)
BufferSource(bytes) == [host |-> FALSE, ptr |-> UserBuffer, data |-> bytes]
HostSource(ptr) == [host |-> TRUE, ptr |-> ptr, data |-> <<>>]

(* The loop of ReadBlock. *)
RECURSIVE ReadLoop(_, _, _, _, _)
ReadLoop(s, b, page_index, page_offset, remaining_size) ==
    IF ~(remaining_size > 0) THEN b
    ELSE IF s.attributes[page_index] # "Memory"
    THEN Fail(b, "ReadBlock: UNREACHABLE")
    ELSE Then(Min2(page_size - page_offset, remaining_size), LAMBDA copy_amount :
         Then(s.pointers[page_index] + page_offset, LAMBDA src_ptr :
         Then([b EXCEPT !.ev = Append(@, Call("FlushRegion", ToCacheAddr(src_ptr),
                                             copy_amount))], LAMBDA b1 :
            IF s.pointers[page_index] = NullPtr THEN Fail(b1, NullDeref)
            ELSE Then([b1 EXCEPT
                        !.out = @ \o [i \in 1 .. copy_amount |-> b1.mem[src_ptr + i - 1]],
                        !.ev = Append(@, Memcpy(UserBuffer + Len(b1.out), src_ptr,
                                                 copy_amount))], LAMBDA b2 :
                 ReadLoop(s, b2, page_index + 1, 0, remaining_size - copy_amount)))))

(* The loop of WriteBlock; done is how far src_buffer has advanced. *)
RECURSIVE WriteLoop(_, _, _, _, _, _, _, _)
WriteLoop(s, b, page_index, page_offset, remaining_size, src, done, kind) ==
    IF ~(remaining_size > 0) THEN b
    ELSE IF s.attributes[page_index] # "Memory"
    THEN Fail(b, "WriteBlock: UNREACHABLE")
    ELSE Then(Min2(page_size - page_offset, remaining_size), LAMBDA copy_amount :
         Then(s.pointers[page_index] + page_offset, LAMBDA dest_ptr :
         Then([b EXCEPT !.ev = Append(@, Call("InvalidateRegion", ToCacheAddr(dest_ptr),
                                             copy_amount))], LAMBDA b1 :
            IF s.pointers[page_index] = NullPtr
               \/ (src.host /\ (src.ptr + done) \notin HostAddrs)
            THEN Fail(b1, NullDeref)
            ELSE Then([b1 EXCEPT
                        !.mem = IF src.host
                                THEN MemcpyHost(@, dest_ptr, src.ptr + done,
                                                copy_amount, kind)
                                ELSE MemcpyFromBuffer(@, dest_ptr,
                                        SubSeq(src.data, done + 1, done + copy_amount)),
                        !.ev = Append(@, Memcpy(dest_ptr, src.ptr + done, copy_amount))],
                      LAMBDA b2 :
                 WriteLoop(s, b2, page_index + 1, 0, remaining_size - copy_amount,
                           src, done + copy_amount, kind)))))

(* WriteBlock with page_offset starting at 0 instead of                    *)
(* dest_addr & page_mask.                                                  *)
WriteBlockFrom_IgnoresOffset(s, b, dest_addr, src, size, kind) ==
    WriteLoop(s, b, dest_addr \div page_size, 0, size, src, 0, kind)

\* void WriteBlock(GPUVAddr dest_addr, const void* src_buffer, std::size_t size)
WriteBlockFrom(s, b, dest_addr, src, size, kind) ==
    WriteLoop(s, b, dest_addr \div page_size, dest_addr % page_size, size, src, 0, kind)

(* The loop of CopyBlock. *)
RECURSIVE CopyLoop(_, _, _, _, _, _, _)
CopyLoop(s, b, dest_addr, page_index, page_offset, remaining_size, kind) ==
    IF ~(remaining_size > 0) THEN b
    ELSE IF s.attributes[page_index] # "Memory"
    THEN Fail(b, "CopyBlock: UNREACHABLE")
    ELSE Then(Min2(page_size - page_offset, remaining_size), LAMBDA copy_amount :
         Then(s.pointers[page_index] + page_offset, LAMBDA src_ptr :
         Then([b EXCEPT !.ev = Append(@, Call("FlushRegion", ToCacheAddr(src_ptr),
                                             copy_amount))], LAMBDA b1 :
         Then(WriteBlockFrom(s, b1, dest_addr, HostSource(src_ptr), copy_amount, kind),
              LAMBDA b2 :
            IF ~Ok(b2) THEN b2
            ELSE CopyLoop(s, b2, dest_addr + copy_amount, page_index + 1, 0,
                          remaining_size - copy_amount, kind)))))

(* ReadBlock with page_offset starting at 0 instead of                     *)
(* src_addr & page_mask.                                                   *)
ReadBlockOp_IgnoresOffset(s, mem, src_addr, size) ==
    ReadLoop(s, IO(mem), src_addr \div page_size, 0, size)

\* void ReadBlock(GPUVAddr src_addr, void* dest_buffer, std::size_t size)
ReadBlockOp(s, mem, src_addr, size) ==
    ReadLoop(s, IO(mem), src_addr \div page_size, src_addr % page_size, size)

\* WriteBlock with the caller's buffer holding `bytes'.
WriteBlockOp(s, mem, dest_addr, bytes, size) ==
    WriteBlockFrom(s, IO(mem), dest_addr, BufferSource(bytes), size, "buffered")

(* CopyBlock with page_offset starting at 0 instead of                     *)
(* src_addr & page_mask.                                                   *)
CopyBlockOp_IgnoresOffset(s, mem, dest_addr, src_addr, size, kind) ==
    CopyLoop(s, IO(mem), dest_addr, src_addr \div page_size, 0, size, kind)

\* void CopyBlock(GPUVAddr dest_addr, GPUVAddr src_addr, std::size_t size)
CopyBlockOp(s, mem, dest_addr, src_addr, size, kind) ==
    CopyLoop(s, IO(mem), dest_addr, src_addr \div page_size, src_addr % page_size,
             size, kind)

---------------------------------------------------------------------------
(* Unsynchronised block operations and the typed accessors.                *)

(* std::memset of the caller's buffer in the sequence of events. *)
Memset(dst, size) == [fn |-> "memset", addr |-> dst, src |-> 0, size |-> size]

(* A memset that fills nothing: the destination is left short. *)
ZeroFill_Nothing(copy_amount) == <<>>

(* The bytes std::memset(dest_buffer, 0, copy_amount) stores. *)
ZeroFill(copy_amount) == [i \in 1 .. copy_amount |-> 0]

(* The loop of ReadBlockUnsafe. *)
RECURSIVE ReadUnsafeLoop(_, _, _, _, _)
ReadUnsafeLoop(s, b, page_index, page_offset, remaining_size) ==
    IF ~(remaining_size > 0) THEN b
    ELSE Then(Min2(page_size - page_offset, remaining_size), LAMBDA copy_amount :
         Then(s.pointers[page_index], LAMBDA page_pointer :
         Then(IF page_pointer # NullPtr
              THEN [b EXCEPT
                      !.out = @ \o [i \in 1 .. copy_amount |->
                                       b.mem[page_pointer + page_offset + i - 1]],
                      !.ev = Append(@, Memcpy(UserBuffer + Len(b.out),
                                              page_pointer + page_offset, copy_amount))]
              ELSE [b EXCEPT
                      !.out = @ \o ZeroFill(copy_amount),
                      !.ev = Append(@, Memset(UserBuffer + Len(b.out), copy_amount))],
              LAMBDA b1 :
            ReadUnsafeLoop(s, b1, page_index + 1, 0, remaining_size - copy_amount))))

(* The loop of WriteBlockUnsafe; done is how far src_buffer has advanced.  *)
RECURSIVE WriteUnsafeLoop(_, _, _, _, _, _, _)
WriteUnsafeLoop(s, b, page_index, page_offset, remaining_size, bytes, done) ==
    IF ~(remaining_size > 0) THEN b
    ELSE Then(Min2(page_size - page_offset, remaining_size), LAMBDA copy_amount :
         Then(s.pointers[page_index], LAMBDA page_pointer :
         Then(IF page_pointer # NullPtr
              THEN [b EXCEPT
                      !.mem = MemcpyFromBuffer(@, page_pointer + page_offset,
                                  SubSeq(bytes, done + 1, done + copy_amount)),
                      !.ev = Append(@, Memcpy(page_pointer + page_offset,
                                              UserBuffer + done, copy_amount))]
              ELSE b,
              LAMBDA b1 :
            WriteUnsafeLoop(s, b1, page_index + 1, 0, remaining_size - copy_amount,
                            bytes, done + copy_amount))))

(* ReadBlockUnsafe going through the synchronised ReadBlock.               *)
ReadBlockUnsafeOp_Synchronised(s, mem, src_addr, size) ==
    ReadBlockOp(s, mem, src_addr, size)

\* void ReadBlockUnsafe(GPUVAddr src_addr, void* dest_buffer, std::size_t size)
ReadBlockUnsafeOp(s, mem, src_addr, size) ==
    ReadUnsafeLoop(s, IO(mem), src_addr \div page_size, src_addr % page_size, size)

(* WriteBlockUnsafe continuing from the input/output record b. *)
WriteBlockUnsafeFrom(s, b, dest_addr, bytes, size) ==
    WriteUnsafeLoop(s, b, dest_addr \div page_size, dest_addr % page_size, size,
                    bytes, 0)

\* void WriteBlockUnsafe(GPUVAddr dest_addr, const void* src_buffer, std::size_t size)
WriteBlockUnsafeOp(s, mem, dest_addr, bytes, size) ==
    WriteBlockUnsafeFrom(s, IO(mem), dest_addr, bytes, size)

\* void CopyBlockUnsafe(GPUVAddr dest_addr, GPUVAddr src_addr, std::size_t size)
(* tmp_buffer is what ReadBlockUnsafe stored; out keeps only the caller's  *)
(* buffer, which CopyBlockUnsafe does not have.                            *)
CopyBlockUnsafeOp(s, mem, dest_addr, src_addr, size) ==
    Then(ReadBlockUnsafeOp(s, mem, src_addr, size), LAMBDA r :
    Then(WriteBlockUnsafeFrom(s, r, dest_addr, r.out, size), LAMBDA w :
        [w EXCEPT !.out = <<>>]))

(* sizeof(T) of the instantiated accessors that fit the scaled page: u8    *)
(* and u16.                                                                *)
TypeSizes == {1, 2}

(* The value of type T that the bytes hold (little endian) and back.       *)
RECURSIVE ValueOf(_)
ValueOf(bytes) ==
    IF bytes = <<>> THEN 0 ELSE Head(bytes) + 256 * ValueOf(Tail(bytes))

RECURSIVE BytesOf(_, _)
BytesOf(value, T) ==
    IF T = 0 THEN <<>> ELSE <<value % 256>> \o BytesOf(value \div 256, T - 1)

OutOfBounds == "memcpy: access past the end of the host block"

NoPointerAssert == "Mapped memory page without a pointer"

(* Read that asserts on every page without a pointer, whatever its        *)
(* attribute.                                                              *)
ReadOp_AssertsWithoutPointer(s, mem, addr, T) ==
    IF IsAddressValid(s, addr) /\ s.pointers[addr \div page_size] = NullPtr
    THEN Fail(IO(mem), NoPointerAssert)
    ELSE [IO(mem) EXCEPT !.out = <<0>>]

\* template <typename T> T Read(GPUVAddr addr) const
ReadOp(s, mem, addr, T) ==
    IF ~IsAddressValid(s, addr) THEN [IO(mem) EXCEPT !.out = <<0>>]
    ELSE Then(s.pointers[addr \div page_size], LAMBDA page_pointer :
         IF page_pointer # NullPtr
         THEN IF \E i \in 0 .. T - 1 : (page_pointer + (addr % page_size) + i) \notin DOMAIN mem
              THEN Fail(IO(mem), OutOfBounds)
              ELSE [IO(mem) EXCEPT
                      !.out = <<ValueOf([i \in 1 .. T |->
                                   mem[page_pointer + (addr % page_size) + i - 1]])>>,
                      !.ev = <<Memcpy(UserBuffer, page_pointer + (addr % page_size), T)>>]
         ELSE CASE s.attributes[addr \div page_size] = "Unmapped" ->
                     [IO(mem) EXCEPT !.out = <<0>>]
                [] s.attributes[addr \div page_size] = "Memory" ->
                     Fail(IO(mem), NoPointerAssert)
                [] OTHER -> Fail(IO(mem), "Read: UNREACHABLE"))

(* Write that stores at the start of the page instead of                  *)
(* page_pointer[addr & page_mask].                                         *)
WriteOp_IgnoresOffset(s, mem, addr, T, data) ==
    IF ~IsAddressValid(s, addr) \/ s.pointers[addr \div page_size] = NullPtr
    THEN IO(mem)
    ELSE [IO(mem) EXCEPT
            !.mem = MemcpyFromBuffer(@, s.pointers[addr \div page_size],
                                     BytesOf(data, T))]

\* template <typename T> void Write(GPUVAddr addr, T data)
WriteOp(s, mem, addr, T, data) ==
    IF ~IsAddressValid(s, addr) THEN IO(mem)
    ELSE Then(s.pointers[addr \div page_size], LAMBDA page_pointer :
         IF page_pointer # NullPtr
         THEN IF \E i \in 0 .. T - 1 : (page_pointer + (addr % page_size) + i) \notin DOMAIN mem
              THEN Fail(IO(mem), OutOfBounds)
              ELSE [IO(mem) EXCEPT
                      !.mem = MemcpyFromBuffer(@, page_pointer + (addr % page_size),
                                               BytesOf(data, T)),
                      !.ev = <<Memcpy(page_pointer + (addr % page_size), UserBuffer, T)>>]
         ELSE CASE s.attributes[addr \div page_size] = "Unmapped" -> IO(mem)
                [] s.attributes[addr \div page_size] = "Memory" ->
                     Fail(IO(mem), NoPointerAssert)
                [] OTHER -> Fail(IO(mem), "Write: UNREACHABLE"))

(* std::uintptr_t arithmetic wraps; the width is scaled down with the      *)
(* address space.                                                          *)
PointerModulus == 2 ^ 16

\* bool IsBlockContinuous(GPUVAddr start, std::size_t size) const
(* The pointers are uintptr_t: a negative difference wraps to a value no   *)
(* inner_size of the model equals.                                         *)
IsBlockContinuous(s, start, size) ==
    LET inner_size == size - 1
        end == start + inner_size
        host_ptr_start == GetPointer(s, start)
        host_ptr_end == GetPointer(s, end)
        range == (host_ptr_end - host_ptr_start) % PointerModulus
    IN range = inner_size

---------------------------------------------------------------------------
(* The state machine.                                                      *)

\* MemoryManager::MemoryManager
InitialVMA == [DefaultVMA EXCEPT !.size = address_space_end]

InitState ==
    UpdatePageTableForVMA(
        State([k \in {InitialVMA.base} |-> InitialVMA],
              [p \in Pages |-> NullPtr],
              [p \in Pages |-> "Unmapped"],
              [p \in Pages |-> 0],
              NoAssert),
        InitialVMA)

OpRecord(op, cpu_addr, gpu_addr, size, ret, calls) ==
    [op |-> op, cpu |-> cpu_addr, gpu |-> gpu_addr, size |-> size,
     ret |-> ret, calls |-> calls]

(* The scheduler was not called. *)
NoCall == "none"

InitCommon ==
    /\ \E s0 \in {InitState} :
        /\ vma_map = s0.vma_map
        /\ pointers = s0.pointers
        /\ attributes = s0.attributes
        /\ backing_addr = s0.backing_addr
        /\ asserted = s0.asserted
    /\ device_mapped = {}
    /\ hist = <<>>
    /\ host_mem = InitialHostMem
    /\ out_buffer = <<>>
    /\ events = <<>>
    /\ draw_counter = 0
    /\ scheduler_call = NoCall

Init == InitCommon /\ recording = FALSE /\ budget = Unlimited /\ io_left = 0

(* The same manager with the operations since construction recorded, for   *)
(* the first MaxHist operations of its life.                               *)
InitFresh == InitCommon /\ recording = TRUE /\ budget = Unlimited /\ io_left = 0

(* An operation runs on a live process and its result becomes the state.   *)
Commit(r, op, cpu_addr, gpu_addr, size) ==
    /\ vma_map' = r.s.vma_map
    /\ pointers' = r.s.pointers
    /\ attributes' = r.s.attributes
    /\ backing_addr' = r.s.backing_addr
    /\ asserted' = r.s.asserted
    /\ device_mapped' = r.dm
    /\ hist' = IF recording
               THEN Append(hist, OpRecord(op, cpu_addr, gpu_addr, size, r.ret, r.calls))
               ELSE hist
    /\ budget' = IF budget > 0 THEN budget - 1 ELSE budget
    /\ UNCHANGED <<recording, io_left, host_mem, out_buffer, events,
                   draw_counter, scheduler_call>>

Live ==
    /\ asserted = NoAssert
    /\ recording => Len(hist) < MaxHist
    /\ budget # 0

AllocateSpace(size) ==
    /\ Live
    /\ \E r \in {AllocateSpaceOp(Cur, device_mapped, size)} :
          Commit(r, "AllocateSpace", 0, 0, size)

AllocateSpaceAt(gpu_addr, size) ==
    /\ Live
    /\ \E r \in {AllocateSpaceAtOp(Cur, device_mapped, gpu_addr, size)} :
          Commit(r, "AllocateSpaceAt", 0, gpu_addr, size)

MapBufferEx(cpu_addr, size) ==
    /\ Live
    /\ \E r \in {MapBufferExOp(Cur, device_mapped, cpu_addr, size)} :
          Commit(r, "MapBufferEx", cpu_addr, 0, size)

MapBufferExAt(cpu_addr, gpu_addr, size) ==
    /\ Live
    /\ \E r \in {MapBufferExAtOp(Cur, device_mapped, cpu_addr, gpu_addr, size)} :
          Commit(r, "MapBufferExAt", cpu_addr, gpu_addr, size)

UnmapBuffer(gpu_addr, size) ==
    /\ Live
    /\ \E r \in {UnmapBufferOp(Cur, device_mapped, gpu_addr, size)} :
          Commit(r, "UnmapBuffer", 0, gpu_addr, size)

Next ==
    \/ \E size \in Sizes : AllocateSpace(size)
    \/ \E gpu_addr \in AlignedGpuAddrs, size \in Sizes : AllocateSpaceAt(gpu_addr, size)
    \/ \E cpu_addr \in CpuAddrs, size \in Sizes : MapBufferEx(cpu_addr, size)
    \/ \E cpu_addr \in CpuAddrs, gpu_addr \in AlignedGpuAddrs, size \in Sizes :
          MapBufferExAt(cpu_addr, gpu_addr, size)
    \/ \E gpu_addr \in AlignedGpuAddrs, size \in Sizes : UnmapBuffer(gpu_addr, size)

Spec == Init /\ [][Next]_vars

SpecFresh == InitFresh /\ [][Next]_vars

---------------------------------------------------------------------------
(* The manager set up by at most MaxSetup map operations, then used by     *)
(* block operations.  The ranges passed lie inside the address space.      *)

BlockSizes == 1 .. MaxBlockBytes

(* The content of the caller's source buffer: byte i of buffer `tag'. *)
BufferTags == {1, 2}
BufferOf(tag, n) == [i \in 1 .. n |-> 10 * tag + i]

InRange(addr, size) == addr + size <= address_space_end

InitBlock ==
    InitCommon /\ recording = FALSE /\ budget = MaxSetup /\ io_left = MaxBlockOps

(* An access operation that also resets the page-table pointers.          *)
CommitIO_ClearsPointers(b) ==
    /\ host_mem' = b.mem
    /\ out_buffer' = b.out
    /\ events' = b.ev
    /\ asserted' = b.asserted
    /\ io_left' = io_left - 1
    /\ budget' = 0
    /\ pointers' = [p \in Pages |-> NullPtr]
    /\ UNCHANGED <<vma_map, attributes, backing_addr, device_mapped, hist, recording,
                   draw_counter, scheduler_call>>

CommitIO(b) ==
    /\ host_mem' = b.mem
    /\ out_buffer' = b.out
    /\ events' = b.ev
    /\ asserted' = b.asserted
    /\ io_left' = io_left - 1
    /\ budget' = 0
    /\ UNCHANGED <<vma_map, pointers, attributes, backing_addr, device_mapped,
                   hist, recording, draw_counter, scheduler_call>>

BlockLive == asserted = NoAssert /\ io_left > 0

ReadBlock(src_addr, size) ==
    /\ BlockLive
    /\ InRange(src_addr, size)
    /\ \E b \in {ReadBlockOp(Cur, host_mem, src_addr, size)} : CommitIO(b)

WriteBlock(dest_addr, tag, size) ==
    /\ BlockLive
    /\ InRange(dest_addr, size)
    /\ \E b \in {WriteBlockOp(Cur, host_mem, dest_addr, BufferOf(tag, size), size)} :
          CommitIO(b)

CopyBlock(dest_addr, src_addr, size, kind) ==
    /\ BlockLive
    /\ InRange(dest_addr, size)
    /\ InRange(src_addr, size)
    /\ \E b \in {CopyBlockOp(Cur, host_mem, dest_addr, src_addr, size, kind)} :
          CommitIO(b)

NextBlock ==
    \/ Next
    \/ \E src_addr \in GpuAddrs, size \in BlockSizes : ReadBlock(src_addr, size)
    \/ \E dest_addr \in GpuAddrs, tag \in BufferTags, size \in BlockSizes :
          WriteBlock(dest_addr, tag, size)
    \/ \E dest_addr \in GpuAddrs, src_addr \in GpuAddrs, size \in BlockSizes,
          kind \in MemcpyKinds : CopyBlock(dest_addr, src_addr, size, kind)

SpecBlock == InitBlock /\ [][NextBlock]_vars

---------------------------------------------------------------------------
(* The manager set up by at most MaxSetup map operations, then used by     *)
(* any of the access operations: the block operations, synchronised or    *)
(* not, the typed accessors and the queries.  The typed accessors and the  *)
(* queries also take addresses past the end of the address space.          *)

AccessAddrs == 0 .. address_space_end + 1

(* The values written: one that fits u8 and one that needs u16. *)
DataOf(T) == {v \in {7, 513} : ValueOf(BytesOf(v, T)) = v}

(* A query answers through out_buffer and touches nothing else. *)
Answer(mem, value) == [IO(mem) EXCEPT !.out = <<value>>]

ReadBlockUnsafe(src_addr, size) ==
    /\ BlockLive
    /\ InRange(src_addr, size)
    /\ \E b \in {ReadBlockUnsafeOp(Cur, host_mem, src_addr, size)} : CommitIO(b)

WriteBlockUnsafe(dest_addr, tag, size) ==
    /\ BlockLive
    /\ InRange(dest_addr, size)
    /\ \E b \in {WriteBlockUnsafeOp(Cur, host_mem, dest_addr, BufferOf(tag, size), size)} :
          CommitIO(b)

CopyBlockUnsafe(dest_addr, src_addr, size) ==
    /\ BlockLive
    /\ InRange(dest_addr, size)
    /\ InRange(src_addr, size)
    /\ \E b \in {CopyBlockUnsafeOp(Cur, host_mem, dest_addr, src_addr, size)} :
          CommitIO(b)

Read(addr, T) ==
    /\ BlockLive
    /\ \E b \in {ReadOp(Cur, host_mem, addr, T)} : CommitIO(b)

Write(addr, T, data) ==
    /\ BlockLive
    /\ \E b \in {WriteOp(Cur, host_mem, addr, T, data)} : CommitIO(b)

QueryGetPointer(addr) ==
    /\ BlockLive
    /\ CommitIO(Answer(host_mem, GetPointer(Cur, addr)))

QueryGpuToCpuAddress(addr) ==
    /\ BlockLive
    /\ CommitIO(Answer(host_mem, GpuToCpuAddress(Cur, addr)))

QueryIsBlockContinuous(start, size) ==
    /\ BlockLive
    /\ InRange(start, size)
    /\ CommitIO(Answer(host_mem, IsBlockContinuous(Cur, start, size)))

NextAccess ==
    \/ NextBlock
    \/ \E src_addr \in GpuAddrs, size \in BlockSizes : ReadBlockUnsafe(src_addr, size)
    \/ \E dest_addr \in GpuAddrs, tag \in BufferTags, size \in BlockSizes :
          WriteBlockUnsafe(dest_addr, tag, size)
    \/ \E dest_addr \in GpuAddrs, src_addr \in GpuAddrs, size \in BlockSizes :
          CopyBlockUnsafe(dest_addr, src_addr, size)
    \/ \E addr \in AccessAddrs, T \in TypeSizes : Read(addr, T)
    \/ \E addr \in AccessAddrs, T \in TypeSizes :
          \E data \in DataOf(T) : Write(addr, T, data)
    \/ \E addr \in AccessAddrs : QueryGetPointer(addr)
    \/ \E addr \in AccessAddrs : QueryGpuToCpuAddress(addr)
    \/ \E start \in GpuAddrs, size \in BlockSizes : QueryIsBlockContinuous(start, size)

SpecAccess == InitBlock /\ [][NextAccess]_vars

---------------------------------------------------------------------------
(* Properties.                                                             *)

(* The operation in progress ran to completion (no assertion aborted it).  *)
Completed == asserted = NoAssert

PageAddr(p) == p * page_size

(* Keys of the VMAs whose extent contains addr. *)
VMAsContaining(m, addr) ==
    {k \in DOMAIN m : m[k].base <= addr /\ addr < m[k].base + m[k].size}

VMAOf(m, addr) == m[FindVMA(m, addr)]

Tiles(m) ==
    /\ \A k \in DOMAIN m : m[k].base = k /\ m[k].size > 0
    /\ m[MapBegin(m)].base = 0
    /\ \A k \in DOMAIN m :
          IF StdNext(m, k) = EndIt
          THEN m[k].base + m[k].size = address_space_end
          ELSE m[k].base + m[k].size = m[StdNext(m, k)].base
    /\ \A p \in Pages : Cardinality(VMAsContaining(m, PageAddr(p))) = 1

(* C1: in every reachable state the VMAs of vma_map tile                   *)
(* [0, address_space_end): first base 0, sizes > 0, each VMA ends where    *)
(* the next begins, the last ends at address_space_end, and every page     *)
(* lies in exactly one VMA.                                                *)
C1_Coverage == Tiles(vma_map)

(* Several VMAs of all three types, made by carving and merging. *)
C1_Witness ==
    /\ Completed
    /\ Cardinality(DOMAIN vma_map) = num_pages
    /\ {vma_map[k].type : k \in DOMAIN vma_map} = {"Unmapped", "Allocated", "Mapped"}

Canonical(m) ==
    \A k \in DOMAIN m :
        StdNext(m, k) # EndIt => ~CanBeMergedWith(m[k], m[StdNext(m, k)])

(* C2: after every completed public operation no two adjacent VMAs         *)
(* satisfy CanBeMergedWith.                                                *)
C2_Canonical == Completed => Canonical(vma_map)

(* The page table is what UpdatePageTableForVMA writes for every VMA.      *)
Projected(s) == \A k \in DOMAIN s.vma_map : UpdatePageTableForVMA(s, s.vma_map[k]) = s

(* C3: after every completed public operation the page-table entry of      *)
(* every page equals the projection of the VMA containing it, as           *)
(* UpdatePageTableForVMA would write it now.                               *)
C3_PageTableMatchesMap == Completed => Projected(Cur)

(* C4: for every page p, attribute[p] = Memory iff the VMA containing p    *)
(* is Mapped and pointer[p] = backing_memory + (p<<P - vma.base).          *)
C4_MemoryIffMapped ==
    \A p \in Pages :
        LET vma == VMAOf(vma_map, PageAddr(p))
        IN attributes[p] = "Memory" <=>
              /\ vma.type = "Mapped"
              /\ pointers[p] = vma.backing_memory + (PageAddr(p) - vma.base)

(* C5: every page of an Allocated VMA has attribute Unmapped and a null    *)
(* pointer.                                                                *)
C5_AllocatedProjectsUnmapped ==
    Completed =>
        \A p \in Pages :
            VMAOf(vma_map, PageAddr(p)).type = "Allocated" =>
                attributes[p] = "Unmapped" /\ pointers[p] = NullPtr

(* C6: no reachable state has a page with a null pointer and attribute     *)
(* Memory (the state in which Read<T> and Write<T> assert).                *)
C6_NoMemoryPageWithoutPointer ==
    \A p \in Pages : ~(pointers[p] = NullPtr /\ attributes[p] = "Memory")

---------------------------------------------------------------------------
(* The address-choosing operations.                                        *)

CarveAssert == "CarveVMA: end_in_vma <= vma.size"

(* Addresses >= address_space_base at which [a, a + size) lies inside a    *)
(* single Unmapped VMA of m.                                               *)
Fits(m, size) ==
    {a \in GpuAddrs :
        /\ a >= address_space_base
        /\ \E k \in DOMAIN m :
              /\ m[k].type = "Unmapped"
              /\ m[k].base <= a
              /\ a + size <= m[k].base + m[k].size}

PageTableUnchanged ==
    /\ pointers' = pointers
    /\ attributes' = attributes
    /\ backing_addr' = backing_addr

(* C7: in any reachable state AllocateSpace(N) returns the smallest        *)
(* address at which the aligned range lies inside one Unmapped VMA, and    *)
(* the carve that follows never trips CarveVMA's end_in_vma assertion.     *)
C7_AllocateSpaceLowestFit ==
    [][\A n \in Sizes :
          AllocateSpace(n) =>
             /\ asserted' # CarveAssert
             /\ Fits(vma_map, AlignUp(n, page_size)) # {} =>
                   AllocateSpaceOp(Cur, device_mapped, n).ret =
                       SetMin(Fits(vma_map, AlignUp(n, page_size)))]_vars

(* C8: when no Unmapped VMA can hold the requested size, AllocateSpace     *)
(* (size) and MapBufferEx(cpu_addr, size) return 0 and leave the VMA map   *)
(* and the page table as they were.                                        *)
C8_ExhaustionLeavesStateUnchanged ==
    [][\A n \in Sizes :
          /\ Fits(vma_map, AlignUp(n, page_size)) = {}
          /\ \/ AllocateSpace(n)
             \/ \E cpu_addr \in CpuAddrs : MapBufferEx(cpu_addr, n)
          => /\ asserted' = NoAssert
             /\ AllocateSpaceOp(Cur, device_mapped, n).ret = 0
             /\ vma_map' = vma_map
             /\ PageTableUnchanged]_vars

(* The state after an unmap of [gpu_addr, gpu_addr + size). *)
UnmappedRange(s, gpu_addr, size) ==
    \A a \in gpu_addr .. gpu_addr + size - 1 :
        /\ GpuToCpuAddress(s, a) = 0
        /\ a < address_space_end =>
              /\ VMAOf(s.vma_map, a).type = "Allocated"
              /\ s.pointers[a \div page_size] = NullPtr
              /\ s.backing_addr[a \div page_size] = 0

(* C9: from every reachable state, after a completed UnmapBuffer(gpu_addr, *)
(* size) every address of [gpu_addr, gpu_addr + AlignUp(size)) lies in an  *)
(* Allocated VMA, its page has a null pointer and backing_addr 0, and      *)
(* GpuToCpuAddress gives none.                                             *)
C9_UnmapLeavesAllocated ==
    Completed =>
        \A g \in AlignedGpuAddrs, n \in Sizes :
            \A r \in {UnmapBufferOp(Cur, device_mapped, g, n)} :
                Ok(r.s) => UnmappedRange(r.s, g, AlignUp(n, page_size))

(* A state from which UnmapBuffer completes over a range that holds a      *)
(* Mapped and an Allocated VMA, and turns the Mapped pages Allocated.      *)
C9_Witness ==
    /\ Completed
    /\ \E g \in AlignedGpuAddrs, n \in Sizes :
          /\ \E r \in {UnmapBufferOp(Cur, device_mapped, g, n)} :
                /\ Ok(r.s)
                /\ UnmappedRange(r.s, g, AlignUp(n, page_size))
          /\ VMAOf(vma_map, g).type = "Mapped"
          /\ \E a \in g .. g + AlignUp(n, page_size) - 1 :
                a < address_space_end /\ VMAOf(vma_map, a).type = "Allocated"

---------------------------------------------------------------------------
(* Scenarios on a new manager, over the recorded history.                  *)

IsOp(h, op, cpu_addr, gpu_addr, size) ==
    /\ h.op = op
    /\ h.cpu = cpu_addr
    /\ h.gpu = gpu_addr
    /\ h.size = size

(* MapBufferEx(cpu_addr, 2 pages) returned 0, UnmapBuffer(0, 2 pages) and  *)
(* AllocateSpace(2 pages) completed, in this order since construction.     *)
MapUnmapAllocate ==
    /\ Len(hist) = 3
    /\ \E cpu_addr \in CpuAddrs : IsOp(hist[1], "MapBufferEx", cpu_addr, 0, 2 * page_size)
    /\ hist[1].ret = 0
    /\ IsOp(hist[2], "UnmapBuffer", 0, 0, 2 * page_size)
    /\ hist[2].ret = 0
    /\ IsOp(hist[3], "AllocateSpace", 0, 0, 2 * page_size)
    /\ hist[3].ret # NoRet

(* C10 as claimed: the following AllocateSpace(2 pages) returns 0 again.   *)
C10_AllocateAfterUnmapReturnsZero == MapUnmapAllocate => hist[3].ret = 0

(* C10, amended: on a new manager, after MapBufferEx(cpu_addr, 2 pages)    *)
(* returned 0 and UnmapBuffer(0, 2 pages), a following AllocateSpace       *)
(* (2 pages) returns the address right after the unmapped range, which     *)
(* stays Allocated.                                                        *)
C10_AllocateAfterUnmapSkipsRange ==
    MapUnmapAllocate =>
        /\ hist[3].ret = 2 * page_size
        /\ VMAOf(vma_map, 0).type = "Allocated"

C10_Witness == MapUnmapAllocate /\ Completed

---------------------------------------------------------------------------
(* Sequences of operations applied to a state.                             *)

(* gpu = MapBufferEx(cpu1, n); UnmapBuffer(gpu, n); MapBufferEx(cpu2, gpu, *)
(* n): the results of the calls made, up to the first that aborts.         *)
MapUnmapRemap(s, dm, cpu1, cpu2, n) ==
    Then(MapBufferExOp(s, dm, cpu1, n), LAMBDA r1 :
        IF ~Ok(r1.s) THEN <<r1>>
        ELSE Then(UnmapBufferOp(r1.s, r1.dm, r1.ret, n), LAMBDA r2 :
            IF ~Ok(r2.s) THEN <<r1, r2>>
            ELSE Then(MapBufferExAtOp(r2.s, r2.dm, cpu2, r1.ret, n), LAMBDA r3 :
                <<r1, r2, r3>>)))

(* Every address of [gpu_addr, gpu_addr + size) resolves to the host       *)
(* memory and the guest address of the buffer at cpu_addr.                 *)
ResolvesTo(s, gpu_addr, size, cpu_addr) ==
    \A o \in 0 .. size - 1 :
        /\ GetPointer(s, gpu_addr + o) = HostPtrOf(cpu_addr) + o
        /\ GpuToCpuAddress(s, gpu_addr + o) = cpu_addr + o

(* C11: from every reachable state, when gpu = MapBufferEx(cpu1, N),       *)
(* UnmapBuffer(gpu, N) and gpu' = MapBufferEx(cpu2, gpu, N) complete,      *)
(* gpu' = gpu and every address gpu + o, 0 <= o < N, resolves to cpu2's    *)
(* host memory at offset o and to the guest address cpu2 + o.              *)
C11_UnmapThenRemap ==
    Completed =>
        \A cpu1 \in CpuAddrs, cpu2 \in CpuAddrs, n \in Sizes :
            \A t \in {MapUnmapRemap(Cur, device_mapped, cpu1, cpu2, n)} :
                Len(t) = 3 /\ Ok(t[3].s) =>
                    /\ t[3].ret = t[1].ret
                    /\ ResolvesTo(t[3].s, t[1].ret, n, cpu2)

(* A state, not the initial one, from which the three calls complete with  *)
(* two different buffers over two pages away from address 0.               *)
C11_Witness ==
    /\ Completed
    /\ \E cpu1 \in CpuAddrs, cpu2 \in CpuAddrs :
          /\ cpu1 # cpu2
          /\ \E t \in {MapUnmapRemap(Cur, device_mapped, cpu1, cpu2, 2 * page_size)} :
                /\ Len(t) = 3
                /\ Ok(t[3].s)
                /\ t[1].ret > 0
                /\ ResolvesTo(t[3].s, t[1].ret, 2 * page_size, cpu2)

(* The VMA map and the page table of two states are the same.             *)
SameMapAndPageTable(s1, s2) ==
    /\ s1.vma_map = s2.vma_map
    /\ s1.pointers = s2.pointers
    /\ s1.attributes = s2.attributes
    /\ s1.backing_addr = s2.backing_addr

(* AllocateSpace(gpu, n) called twice: the results of the calls made.      *)
AllocateTwice(s, dm, gpu_addr, n) ==
    Then(AllocateSpaceAtOp(s, dm, gpu_addr, n), LAMBDA r1 :
        IF ~Ok(r1.s) THEN <<r1>>
        ELSE Then(AllocateSpaceAtOp(r1.s, r1.dm, gpu_addr, n), LAMBDA r2 :
                <<r1, r2>>))

(* C12: from every reachable state in which AllocateSpace(gpu, N)          *)
(* completes, a second AllocateSpace(gpu, N) that completes leaves the     *)
(* VMA map and the page table as the first call left them.                 *)
C12_AllocateAtIdempotent ==
    Completed =>
        \A g \in AlignedGpuAddrs, n \in Sizes :
            \A t \in {AllocateTwice(Cur, device_mapped, g, n)} :
                Len(t) = 2 /\ Ok(t[2].s) =>
                    SameMapAndPageTable(t[1].s, t[2].s)

(* Every address of [gpu_addr, gpu_addr + size) lies in a Mapped VMA.       *)
MappedRange(s, gpu_addr, size) ==
    \A o \in 0 .. size - 1 :
        /\ gpu_addr + o < address_space_end
        /\ VMAOf(s.vma_map, gpu_addr + o).type = "Mapped"

(* C14: from every reachable state, after a completed MapBufferEx(cpu_addr, *)
(* gpu_addr, size) with page-aligned gpu_addr every address gpu_addr + o,  *)
(* 0 <= o < AlignUp(size), lies in a Mapped VMA and resolves to the host   *)
(* pointer of cpu_addr plus o and to the guest address cpu_addr + o,       *)
(* whatever the type of the VMA that contained gpu_addr.                   *)
C14_MapAtMapsRange ==
    Completed =>
        \A cpu_addr \in CpuAddrs, g \in AlignedGpuAddrs, n \in Sizes :
            \A r \in {MapBufferExAtOp(Cur, device_mapped, cpu_addr, g, n)} :
                Ok(r.s) =>
                    /\ r.ret = g
                    /\ MappedRange(r.s, g, AlignUp(n, page_size))
                    /\ ResolvesTo(r.s, g, AlignUp(n, page_size), cpu_addr)

(* The VMA keyed k and the page-table entries of its pages are the same in *)
(* s1 and s2.                                                              *)
SameVMAAndPages(s1, s2, k) ==
    /\ k \in DOMAIN s2.vma_map
    /\ s2.vma_map[k].type = s1.vma_map[k].type
    /\ s2.vma_map[k].base = s1.vma_map[k].base
    /\ s2.vma_map[k].size = s1.vma_map[k].size
    /\ s2.vma_map[k].backing_memory = s1.vma_map[k].backing_memory
    /\ s2.vma_map[k].backing_addr = s1.vma_map[k].backing_addr
    /\ \A p \in Pages :
          PageAddr(p) >= k /\ PageAddr(p) < k + s1.vma_map[k].size =>
              /\ s2.pointers[p] = s1.pointers[p]
              /\ s2.attributes[p] = s1.attributes[p]
              /\ s2.backing_addr[p] = s1.backing_addr[p]

(* C15: in every reachable state, when gpu_addr lies inside a Mapped VMA,  *)
(* a completed AllocateSpace(gpu_addr, N) or MapBufferEx(cpu, gpu_addr, N) *)
(* leaves that VMA's type, base, size, backing_memory and backing_addr and *)
(* the page-table entries of its pages unchanged.                          *)
C15_OverMappedIsNoOp ==
    Completed =>
        \A g \in AlignedGpuAddrs, n \in Sizes :
            VMAOf(vma_map, g).type = "Mapped" =>
                /\ \A r \in {AllocateSpaceAtOp(Cur, device_mapped, g, n)} :
                      Ok(r.s) => SameVMAAndPages(Cur, r.s, FindVMA(vma_map, g))
                /\ \A cpu_addr \in CpuAddrs :
                      \A r \in {MapBufferExAtOp(Cur, device_mapped, cpu_addr, g, n)} :
                          Ok(r.s) => SameVMAAndPages(Cur, r.s, FindVMA(vma_map, g))

(* MapBufferEx(cpu, g, n); UnmapBuffer(g, n): the results of the calls     *)
(* made.                                                                   *)
MapThenUnmap(s, dm, cpu_addr, g, n) ==
    Then(MapBufferExAtOp(s, dm, cpu_addr, g, n), LAMBDA r1 :
        IF ~Ok(r1.s) THEN <<r1>>
        ELSE Then(UnmapBufferOp(r1.s, r1.dm, g, n), LAMBDA r2 : <<r1, r2>>))

(* [g, g + n) lies inside one Allocated VMA as AllocateSpace makes it      *)
(* (offset 0, no backing).                                                 *)
InsideFreshAllocation(m, g, n) ==
    /\ g + n <= address_space_end
    /\ \E k \in {FindVMA(m, g)} :
          /\ m[k].type = "Allocated"
          /\ m[k].offset = 0
          /\ g + n <= m[k].base + m[k].size

(* C16: in every reachable state, when [g, g + n) lies inside one          *)
(* Allocated VMA made by AllocateSpace, MapBufferEx(cpu, g, n) makes the   *)
(* range a Mapped VMA and adds at most two VMAs, and UnmapBuffer(g, n)     *)
(* afterwards restores the VMA map and the page table to the state before  *)
(* the map.                                                                *)
C16_MapUnmapRoundTrip ==
    Completed =>
        \A cpu_addr \in CpuAddrs, g \in AlignedGpuAddrs, n \in Sizes :
            InsideFreshAllocation(vma_map, g, AlignUp(n, page_size)) =>
                \A t \in {MapThenUnmap(Cur, device_mapped, cpu_addr, g, n)} :
                    /\ Len(t) = 2
                    /\ Ok(t[2].s)
                    /\ MappedRange(t[1].s, g, AlignUp(n, page_size))
                    /\ Cardinality(DOMAIN t[1].s.vma_map)
                          <= Cardinality(DOMAIN vma_map) + 2
                    /\ SameMapAndPageTable(Cur, t[2].s)

(* The map made of an Allocated VMA [0, size) with offset 0 followed by    *)
(* one Unmapped VMA up to address_space_end.                               *)
AllocatedThenFree(size) ==
    [k \in {0, size} |->
        IF k = 0
        THEN [DefaultVMA EXCEPT !.size = size, !.type = "Allocated"]
        ELSE [DefaultVMA EXCEPT !.base = size, !.size = address_space_end - size]]

(* Sizes of the first allocation: those of the operations and three pages. *)
FirstSizes == Sizes \cup {3 * page_size}

(* C17: a new manager holds exactly one VMA {0, address_space_end,         *)
(* Unmapped}; the first AllocateSpace(size) on it returns 0 and leaves     *)
(* exactly {0, AlignUp(size), Allocated, offset 0} followed by one         *)
(* Unmapped VMA up to address_space_end (size = three pages included).     *)
C17_NewManagerFirstAllocate ==
    /\ hist = <<>> =>
          /\ vma_map = [k \in {0} |-> [DefaultVMA EXCEPT !.size = address_space_end]]
          /\ \A n \in FirstSizes :
                \A r \in {AllocateSpaceOp(Cur, device_mapped, n)} :
                    /\ r.ret = 0
                    /\ r.s.vma_map = AllocatedThenFree(AlignUp(n, page_size))
    /\ Len(hist) = 1 /\ hist[1].op = "AllocateSpace" =>
          /\ hist[1].ret = 0
          /\ vma_map = AllocatedThenFree(AlignUp(hist[1].size, page_size))

(* The first operation on a new manager was AllocateSpace(2 pages).        *)
C17_Witness ==
    /\ Len(hist) = 1
    /\ IsOp(hist[1], "AllocateSpace", 0, 0, 2 * page_size)
    /\ hist[1].ret = 0
    /\ Cardinality(DOMAIN vma_map) = 2

---------------------------------------------------------------------------
(* Block operations on mapped memory.                                      *)

(* [a, a + n) lies wholly inside one Mapped VMA. *)
InsideOneMapped(m, a, n) ==
    /\ InRange(a, n)
    /\ \E k \in {FindVMA(m, a)} :
          m[k].type = "Mapped" /\ a + n <= m[k].base + m[k].size

(* The host bytes behind [a, a + n). *)
HostRange(s, a, n) == {GetPointer(s, a + o) : o \in 0 .. n - 1}

(* WriteBlock(a, buf, n) followed by ReadBlock(a, out, n). *)
WriteThenRead(s, mem, a, bytes, n) ==
    Then(WriteBlockOp(s, mem, a, bytes, n), LAMBDA w :
        IF ~Ok(w) THEN <<w>>
        ELSE Then(ReadBlockOp(s, w.mem, a, n), LAMBDA r : <<w, r>>))

(* The range starts inside a page and ends in a later one. *)
CrossesPage(a, n) ==
    a % page_size # 0 /\ (a + n - 1) \div page_size > a \div page_size

(* C13: in every reachable state, for [a, a + n) wholly inside one Mapped  *)
(* VMA, WriteBlock(a, buf, n) followed by ReadBlock(a, out, n) completes   *)
(* with out = buf, and the host bytes outside the range are unchanged.     *)
C13_BlockRoundTrip ==
    Completed =>
        \A a \in GpuAddrs, n \in BlockSizes, tag \in BufferTags :
            InsideOneMapped(vma_map, a, n) =>
                \A t \in {WriteThenRead(Cur, host_mem, a, BufferOf(tag, n), n)} :
                    /\ Len(t) = 2
                    /\ Ok(t[2])
                    /\ t[2].out = BufferOf(tag, n)
                    /\ t[2].mem = t[1].mem
                    /\ \A h \in HostAddrs \ HostRange(Cur, a, n) :
                          t[1].mem[h] = host_mem[h]

(* A state with a Mapped VMA in which a round trip crosses a page          *)
(* boundary.                                                               *)
C13_Witness ==
    /\ Completed
    /\ \E a \in GpuAddrs, n \in BlockSizes :
          /\ InsideOneMapped(vma_map, a, n)
          /\ CrossesPage(a, n)
          /\ \E t \in {WriteThenRead(Cur, host_mem, a, BufferOf(1, n), n)} :
                Len(t) = 2 /\ Ok(t[2]) /\ t[2].out = BufferOf(1, n)

---------------------------------------------------------------------------
(* Rasterizer callouts of the block operations.                            *)

(* The pieces of [a, a + n), one per page touched, in address order. *)
Pieces(a, n) ==
    [i \in 1 .. ((a + n - 1) \div page_size) - (a \div page_size) + 1 |->
        LET p == (a \div page_size) + i - 1
            lo == IF a > PageAddr(p) THEN a ELSE PageAddr(p)
            hi == IF a + n < PageAddr(p + 1) THEN a + n ELSE PageAddr(p + 1)
        IN [addr |-> lo, size |-> hi - lo]]

(* The callouts `fn' among the events, as (CacheAddr, size) pairs. *)
CalloutPairs(ev, fn) ==
    LET calls == SelectSeq(ev, LAMBDA e : e.fn = fn)
    IN [i \in DOMAIN calls |-> <<calls[i].addr, calls[i].size>>]

(* One pair per page touched: the CacheAddr of the first byte accessed in  *)
(* the page and the byte count in that page.                               *)
ExpectedPairs(s, a, n) ==
    [i \in DOMAIN Pieces(a, n) |->
        <<ToCacheAddr(GetPointer(s, Pieces(a, n)[i].addr)), Pieces(a, n)[i].size>>]

(* Events of a read: per page the Flush, then the copy out of that page.   *)
ExpectedReadEvents(s, a, n) ==
    [j \in 1 .. 2 * Len(Pieces(a, n)) |->
        LET piece == Pieces(a, n)[(j + 1) \div 2]
            ptr == GetPointer(s, piece.addr)
        IN IF j % 2 = 1
           THEN Call("FlushRegion", ToCacheAddr(ptr), piece.size)
           ELSE Memcpy(UserBuffer + (piece.addr - a), ptr, piece.size)]

(* Events of a write: per page the Invalidate, then the copy into it.      *)
ExpectedWriteEvents(s, a, n) ==
    [j \in 1 .. 2 * Len(Pieces(a, n)) |->
        LET piece == Pieces(a, n)[(j + 1) \div 2]
            ptr == GetPointer(s, piece.addr)
        IN IF j % 2 = 1
           THEN Call("InvalidateRegion", ToCacheAddr(ptr), piece.size)
           ELSE Memcpy(ptr, UserBuffer + (piece.addr - a), piece.size)]

(* C18: in every reachable state, for a range wholly inside Mapped pages,  *)
(* ReadBlock issues exactly one Flush and WriteBlock exactly one           *)
(* Invalidate per page touched, with the CacheAddr of the first byte       *)
(* accessed in the page and the byte count copied in it, each right before *)
(* the copy of that page's bytes.                                          *)
C18_CalloutPerPage ==
    Completed =>
        \A a \in GpuAddrs, n \in BlockSizes :
            InRange(a, n) /\ MappedRange(Cur, a, n) =>
                /\ \A r \in {ReadBlockOp(Cur, host_mem, a, n)} :
                      /\ Ok(r)
                      /\ r.ev = ExpectedReadEvents(Cur, a, n)
                      /\ CalloutPairs(r.ev, "FlushRegion") = ExpectedPairs(Cur, a, n)
                /\ \A w \in {WriteBlockOp(Cur, host_mem, a, BufferOf(1, n), n)} :
                      /\ Ok(w)
                      /\ w.ev = ExpectedWriteEvents(Cur, a, n)
                      /\ CalloutPairs(w.ev, "InvalidateRegion") = ExpectedPairs(Cur, a, n)

(* A state in which an access starting inside one Mapped page and ending   *)
(* in the next makes two callouts.                                         *)
C18_Witness ==
    /\ Completed
    /\ \E a \in GpuAddrs, n \in BlockSizes :
          /\ InRange(a, n)
          /\ MappedRange(Cur, a, n)
          /\ CrossesPage(a, n)
          /\ Len(CalloutPairs(ReadBlockOp(Cur, host_mem, a, n).ev, "FlushRegion")) = 2
          /\ Len(CalloutPairs(WriteBlockOp(Cur, host_mem, a, BufferOf(1, n), n).ev,
                              "InvalidateRegion")) = 2

(* C19: in every reachable state, when WriteBlock(A, n) completes, a       *)
(* ReadBlock(A, n) that follows with no map change in between issues its   *)
(* Flush callouts over the same sequence of (CacheAddr, size) pairs as the *)
(* Invalidate callouts of the WriteBlock.                                  *)
C19_FlushMatchesInvalidate ==
    Completed =>
        \A a \in GpuAddrs, n \in BlockSizes, tag \in BufferTags :
            InRange(a, n) =>
                \A t \in {WriteThenRead(Cur, host_mem, a, BufferOf(tag, n), n)} :
                    Len(t) = 2 =>
                        /\ Ok(t[2])
                        /\ CalloutPairs(t[2].ev, "FlushRegion")
                              = CalloutPairs(t[1].ev, "InvalidateRegion")

(* A state in which a write over two Mapped pages with separate host       *)
(* memory is followed by a read of the same range.                         *)
C19_Witness ==
    /\ Completed
    /\ \E a \in GpuAddrs, n \in BlockSizes :
          /\ InRange(a, n)
          /\ CrossesPage(a, n)
          /\ GetPointer(Cur, a + n - 1) # GetPointer(Cur, a) + n - 1
          /\ \E t \in {WriteThenRead(Cur, host_mem, a, BufferOf(2, n), n)} :
                /\ Len(t) = 2
                /\ Ok(t[2])
                /\ Len(CalloutPairs(t[1].ev, "InvalidateRegion")) = 2

(* The callout `fn' at position j of ev covers the host range              *)
(* [ptr, ptr + size).                                                      *)
Covers(ev, j, fn, ptr, size) ==
    /\ ev[j].fn = fn
    /\ ev[j].addr <= ptr
    /\ ptr + size <= ev[j].addr + ev[j].size

---------------------------------------------------------------------------
(* Block operations on pages without a host pointer.                       *)

(* The pages that [a, a + n) touches. *)
PagesTouched(a, n) == (a \div page_size) .. ((a + n - 1) \div page_size)

(* The pages of the range whose page-table pointer is null. *)
NullPages(s, a, n) == {p \in PagesTouched(a, n) : s.pointers[p] = NullPtr}

(* The events of an operation that a page accounts for: none once the      *)
(* operation stopped at the first null page.                               *)
EventsUpTo(s, a, n) ==
    Cardinality({p \in PagesTouched(a, n) : p < SetMin(NullPages(s, a, n))})

(* C21: in every state from which a block operation starts, ReadBlock and  *)
(* WriteBlock over a range that has a page with a null pointer stop at     *)
(* the first such page with the unreachable assertion, having made         *)
(* callouts and copies only for the pages before it.                       *)
C21_NullPageIsUnreachable ==
    BlockLive =>
        \A a \in GpuAddrs, n \in BlockSizes :
            InRange(a, n) /\ NullPages(Cur, a, n) # {} =>
                /\ \A r \in {ReadBlockOp(Cur, host_mem, a, n)} :
                      /\ r.asserted = "ReadBlock: UNREACHABLE"
                      /\ Len(r.ev) = 2 * EventsUpTo(Cur, a, n)
                /\ \A w \in {WriteBlockOp(Cur, host_mem, a, BufferOf(1, n), n)} :
                      /\ w.asserted = "WriteBlock: UNREACHABLE"
                      /\ Len(w.ev) = 2 * EventsUpTo(Cur, a, n)

---------------------------------------------------------------------------
(* Unsynchronised block operations on a sparse range.                      *)

(* Byte i of the destination: the host byte behind start + i, or zero.     *)
ExpectedUnsafeRead(s, mem, a, n) ==
    [i \in 1 .. n |->
        IF s.pointers[(a + i - 1) \div page_size] # NullPtr
        THEN mem[GetPointer(s, a + i - 1)]
        ELSE 0]

(* Host memory after the write: the host byte behind start + i holds byte  *)
(* i of the buffer (the last such i where GPU pages share host memory).    *)
ExpectedUnsafeWrite(s, mem, a, bytes, n) ==
    [h \in DOMAIN mem |->
        LET I == {i \in 1 .. n : GetPointer(s, a + i - 1) = h}
        IN IF I = {} THEN mem[h] ELSE bytes[SetMax(I)]]

(* C22: in every state from which a block operation starts,                *)
(* ReadBlockUnsafe fills the destination with the host bytes of the pages  *)
(* that have a pointer and with zero bytes for the pages that have none,   *)
(* and WriteBlockUnsafe writes the pages that have a pointer and skips     *)
(* the others, byte i of the buffer always going with address start + i.   *)
C22_UnsafeSparse ==
    BlockLive =>
        \A a \in GpuAddrs, n \in BlockSizes :
            InRange(a, n) =>
                /\ \A r \in {ReadBlockUnsafeOp(Cur, host_mem, a, n)} :
                      /\ Ok(r)
                      /\ r.out = ExpectedUnsafeRead(Cur, host_mem, a, n)
                      /\ r.mem = host_mem
                /\ \A tag \in BufferTags :
                      \A w \in {WriteBlockUnsafeOp(Cur, host_mem, a, BufferOf(tag, n), n)} :
                          /\ Ok(w)
                          /\ w.mem = ExpectedUnsafeWrite(Cur, host_mem, a, BufferOf(tag, n), n)

(* A state with a range whose first page has no pointer and whose last     *)
(* page has one: the read zero-fills then copies, the write skips then     *)
(* writes.                                                                 *)
C22_Witness ==
    /\ BlockLive
    /\ \E a \in GpuAddrs, n \in BlockSizes :
          /\ InRange(a, n)
          /\ CrossesPage(a, n)
          /\ Cur.pointers[a \div page_size] = NullPtr
          /\ Cur.pointers[(a + n - 1) \div page_size] # NullPtr
          /\ ReadBlockUnsafeOp(Cur, host_mem, a, n).out[1] = 0
          /\ ReadBlockUnsafeOp(Cur, host_mem, a, n).out[n] # 0
          /\ WriteBlockUnsafeOp(Cur, host_mem, a, BufferOf(1, n), n).mem # host_mem

---------------------------------------------------------------------------
(* Frame of the access operations.                                         *)

RasterizerCallouts == {"FlushRegion", "InvalidateRegion", "FlushAndInvalidateRegion"}

(* No event of ev is a rasterizer callout. *)
CalloutFree(ev) == \A i \in DOMAIN ev : ev[i].fn \notin RasterizerCallouts

(* C23: in every reachable state, for every address, size and value,       *)
(* Read<T>, Write<T>, ReadBlockUnsafe, WriteBlockUnsafe and                *)
(* CopyBlockUnsafe make no rasterizer callout (GetPointer and              *)
(* GpuToCpuAddress are pure functions of the page table).                  *)
C23_NoCalloutFromUnsafe ==
    BlockLive =>
        /\ \A a \in GpuAddrs, n \in BlockSizes :
              InRange(a, n) =>
                  /\ CalloutFree(ReadBlockUnsafeOp(Cur, host_mem, a, n).ev)
                  /\ CalloutFree(WriteBlockUnsafeOp(Cur, host_mem, a, BufferOf(1, n), n).ev)
                  /\ \A src \in GpuAddrs :
                        InRange(src, n) =>
                            CalloutFree(CopyBlockUnsafeOp(Cur, host_mem, a, src, n).ev)
        /\ \A a \in AccessAddrs, T \in TypeSizes :
              /\ CalloutFree(ReadOp(Cur, host_mem, a, T).ev)
              /\ \A data \in DataOf(T) : CalloutFree(WriteOp(Cur, host_mem, a, T, data).ev)

(* A state in which the unsynchronised operations copy bytes of a Mapped   *)
(* page, where the synchronised ReadBlock makes a callout.                 *)
C23_Witness ==
    /\ BlockLive
    /\ \E a \in GpuAddrs :
          /\ MappedRange(Cur, a, 1)
          /\ ReadBlockUnsafeOp(Cur, host_mem, a, 1).ev # <<>>
          /\ ReadOp(Cur, host_mem, a, 1).ev # <<>>
          /\ ~CalloutFree(ReadBlockOp(Cur, host_mem, a, 1).ev)

---------------------------------------------------------------------------
(* Typed accessors.                                                        *)

(* addr is past the page table or on a page with attribute Unmapped. *)
InvalidOrUnmapped(s, addr) ==
    \/ ~IsAddressValid(s, addr)
    \/ s.attributes[addr \div page_size] = "Unmapped"

(* C25: in every state from which an access starts, for an address that    *)
(* is invalid or on a page with attribute Unmapped, Read<T> returns 0 and  *)
(* Write<T> leaves host memory as it was, and neither trips an assertion   *)
(* (neither has access to the VMA map or writes the page table).           *)
C25_InvalidAccessNonFatal ==
    BlockLive =>
        \A addr \in AccessAddrs, T \in TypeSizes :
            InvalidOrUnmapped(Cur, addr) =>
                /\ \A r \in {ReadOp(Cur, host_mem, addr, T)} :
                      Ok(r) /\ r.out = <<0>> /\ r.mem = host_mem
                /\ \A data \in DataOf(T) :
                      \A w \in {WriteOp(Cur, host_mem, addr, T, data)} :
                          Ok(w) /\ w.mem = host_mem

(* A state with a page that reads non-zero next to an Unmapped page and an *)
(* invalid address that read zero.                                         *)
C25_Witness ==
    /\ BlockLive
    /\ \E addr \in GpuAddrs, other \in GpuAddrs :
          /\ Cur.attributes[addr \div page_size] = "Unmapped"
          /\ ReadOp(Cur, host_mem, addr, 1).out = <<0>>
          /\ ReadOp(Cur, host_mem, address_space_end, 1).out = <<0>>
          /\ Ok(ReadOp(Cur, host_mem, other, 1))
          /\ ReadOp(Cur, host_mem, other, 1).out # <<0>>

(* addr is on a Mapped page and the T bytes at addr end within the page.   *)
FitsMappedPage(s, addr, T) ==
    /\ MappedRange(s, addr, 1)
    /\ (addr % page_size) + T <= page_size

(* Write<T>(a, v) followed by Read<T>(a). *)
WriteThenReadTyped(s, mem, a, T, v) ==
    Then(WriteOp(s, mem, a, T, v), LAMBDA w :
        IF ~Ok(w) THEN <<w>> ELSE <<w, ReadOp(s, w.mem, a, T)>>)

(* C26: in every state from which an access starts, for an address a on a  *)
(* Mapped page with a + sizeof(T) within the page, Write<T>(a, v) followed *)
(* by Read<T>(a) returns v; and after a MapBufferEx(cpu_addr, size) that   *)
(* returned gpu, the write of v at an address a of the new range stores    *)
(* the bytes of v at host_ptr_of(cpu_addr) + (a - gpu) and                 *)
(* GpuToCpuAddress(a) is cpu_addr + (a - gpu).                             *)
C26_TypedRoundTrip ==
    BlockLive =>
        /\ \A a \in GpuAddrs, T \in TypeSizes :
              FitsMappedPage(Cur, a, T) =>
                  \A v \in DataOf(T) :
                      \A t \in {WriteThenReadTyped(Cur, host_mem, a, T, v)} :
                          /\ Len(t) = 2
                          /\ Ok(t[2])
                          /\ t[2].out = <<v>>
        /\ \A cpu_addr \in CpuAddrs, size \in Sizes :
              \A m \in {MapBufferExOp(Cur, device_mapped, cpu_addr, size)} :
                  Ok(m.s) =>
                      \A a \in m.ret .. m.ret + size - 1, T \in TypeSizes :
                          (a % page_size) + T <= page_size =>
                              /\ GpuToCpuAddress(m.s, a) = cpu_addr + (a - m.ret)
                              /\ \A v \in DataOf(T) :
                                    \A t \in {WriteThenReadTyped(m.s, host_mem, a, T, v)} :
                                        /\ Len(t) = 2
                                        /\ t[2].out = <<v>>
                                        /\ \A i \in 1 .. T :
                                              t[1].mem[HostPtrOf(cpu_addr) + (a - m.ret) + i - 1]
                                                 = BytesOf(v, T)[i]

(* A state in which a value is written and read back at an odd address of  *)
(* a Mapped page that is not the first page of its buffer.                 *)
C26_Witness ==
    /\ BlockLive
    /\ \E a \in GpuAddrs :
          /\ a % page_size # 0
          /\ FitsMappedPage(Cur, a, 1)
          /\ GpuToCpuAddress(Cur, a) \notin CpuAddrs
          /\ GpuToCpuAddress(Cur, a - 1) \notin CpuAddrs
          /\ \E t \in {WriteThenReadTyped(Cur, host_mem, a, 1, 7)} :
                Len(t) = 2 /\ t[2].out = <<7>> /\ t[1].mem # host_mem
    /\ \E cpu_addr \in CpuAddrs, size \in Sizes :
          Ok(MapBufferExOp(Cur, device_mapped, cpu_addr, size).s)

---------------------------------------------------------------------------
(* IsBlockContinuous.                                                      *)

(* The whole of [start, start + size) maps to one contiguous host          *)
(* allocation: every page has a pointer and the host address advances      *)
(* with the GPU address.                                                   *)
ContiguousHostRange(s, start, size) ==
    /\ \A p \in PagesTouched(start, size) : s.pointers[p] # NullPtr
    /\ \A o \in 0 .. size - 1 : GetPointer(s, start + o) = GetPointer(s, start) + o

(* C27: in every state from which an access starts,                        *)
(* IsBlockContinuous(start, size) is true exactly when the whole range     *)
(* maps to one contiguous host allocation.                                 *)
C27_ContinuousIffContiguous ==
    BlockLive =>
        \A start \in GpuAddrs, size \in BlockSizes :
            InRange(start, size) =>
                (IsBlockContinuous(Cur, start, size)
                    <=> ContiguousHostRange(Cur, start, size))

---------------------------------------------------------------------------
(* Order of the effects of UnmapBuffer.                                    *)

---------------------------------------------------------------------------
(* CarveVMA and CarveVMARange.                                             *)

(* Page-aligned sizes above zero, up to the whole address space. *)
CarveSizes == {k * page_size : k \in 1 .. num_pages}

(* [base, base + size) lies inside the one VMA that holds base, and that   *)
(* VMA is not Mapped.                                                      *)
FitsOneUnmappedOrAllocated(m, base, size) ==
    /\ base + size <= address_space_end
    /\ VMAOf(m, base).type # "Mapped"
    /\ VMAOf(m, base).base <= base
    /\ base + size <= VMAOf(m, base).base + VMAOf(m, base).size

SamePageTable(s1, s2) ==
    /\ s1.pointers = s2.pointers
    /\ s1.attributes = s2.attributes
    /\ s1.backing_addr = s2.backing_addr

(* C29: in every reachable state, CarveVMA(base, size) with page-aligned   *)
(* base and size > 0 on a range inside one VMA that is not Mapped          *)
(* completes and returns the VMA of extent exactly [base, base + size),    *)
(* adds at most two VMAs, keeps the type of every address and the page     *)
(* table, and the pieces of an Allocated VMA carry offsets that continue   *)
(* from the original offset.                                               *)
C29_CarveVMAExact ==
    Completed =>
        \A base \in AlignedGpuAddrs, size \in CarveSizes :
            FitsOneUnmappedOrAllocated(Cur.vma_map, base, size) =>
                \A r \in {CarveVMA(Cur, base, size)} :
                    /\ Ok(r.s)
                    /\ r.it = base
                    /\ r.it \in DOMAIN r.s.vma_map
                    /\ r.s.vma_map[r.it].base = base
                    /\ r.s.vma_map[r.it].size = size
                    /\ DOMAIN vma_map \subseteq DOMAIN r.s.vma_map
                    /\ Cardinality(DOMAIN r.s.vma_map \ DOMAIN vma_map) <= 2
                    /\ \A addr \in GpuAddrs :
                          VMAOf(r.s.vma_map, addr).type = VMAOf(vma_map, addr).type
                    /\ SamePageTable(r.s, Cur)
                    /\ \A k \in DOMAIN r.s.vma_map :
                          VMAOf(vma_map, k).type = "Allocated" =>
                              r.s.vma_map[k].offset
                                 = VMAOf(vma_map, k).offset + (k - VMAOf(vma_map, k).base)

(* A state in which CarveVMA cuts the middle out of an Allocated VMA and   *)
(* makes two new VMAs.                                                     *)
C29_Witness ==
    /\ Completed
    /\ \E base \in AlignedGpuAddrs, size \in CarveSizes :
          /\ FitsOneUnmappedOrAllocated(Cur.vma_map, base, size)
          /\ VMAOf(Cur.vma_map, base).type = "Allocated"
          /\ \E r \in {CarveVMA(Cur, base, size)} :
                /\ Ok(r.s)
                /\ Cardinality(DOMAIN r.s.vma_map \ DOMAIN vma_map) = 2

(* Some Unmapped VMA overlaps [target, target + size). *)
CoversUnmapped(m, target, size) ==
    \E k \in DOMAIN m :
        /\ m[k].type = "Unmapped"
        /\ k < target + size
        /\ k + m[k].size > target

---------------------------------------------------------------------------
(* SplitVMA and MergeAdjacent.                                             *)

(* The fields that identify a VMA for a split followed by a merge. *)
SameArea(a, b) ==
    /\ a.base = b.base
    /\ a.size = b.size
    /\ a.type = b.type
    /\ a.offset = b.offset
    /\ a.backing_memory = b.backing_memory

(* C31: in every reachable state, SplitVMA(vma, k) with 0 < k < vma.size   *)
(* completes (no assertion fires) and leaves [base, base + k) and          *)
(* [base + k, base + size) of the original type, which CanBeMergedWith     *)
(* accepts; MergeAdjacent applied to either half right after the split     *)
(* returns a VMA with the original base, size, type, offset and            *)
(* backing_memory.                                                         *)
C31_SplitThenMerge ==
    Completed =>
        \A key \in DOMAIN vma_map :
            \A k \in 1 .. vma_map[key].size - 1 :
                \A r \in {SplitVMA(Cur, key, k)} :
                    /\ Ok(r.s)
                    /\ r.it = key + k
                    /\ DOMAIN r.s.vma_map = DOMAIN vma_map \cup {key + k}
                    /\ r.s.vma_map[key].base = key
                    /\ r.s.vma_map[key].size = k
                    /\ r.s.vma_map[key + k].base = key + k
                    /\ r.s.vma_map[key + k].size = vma_map[key].size - k
                    /\ r.s.vma_map[key].type = vma_map[key].type
                    /\ r.s.vma_map[key + k].type = vma_map[key].type
                    /\ CanBeMergedWith(r.s.vma_map[key], r.s.vma_map[key + k])
                    /\ \A half \in {key, key + k} :
                          \A g \in {MergeAdjacent(r.s, half)} :
                              /\ Ok(g.s)
                              /\ g.it \in DOMAIN g.s.vma_map
                              /\ SameArea(g.s.vma_map[g.it], vma_map[key])

---------------------------------------------------------------------------
(* Assertions of UnmapRange, AllocateMemory and MapBackingMemory.          *)

(* C32: in every reachable state, UnmapRange(target, size) over a          *)
(* page-aligned range made only of Mapped and Allocated VMAs completes,    *)
(* closing assertion included, and the VMA that contains target is then    *)
(* Allocated and has size >= size.                                         *)
C32_UnmapRangeClosingAssert ==
    Completed =>
        \A target \in AlignedGpuAddrs, size \in CarveSizes :
            target + size <= address_space_end
            /\ ~CoversUnmapped(Cur.vma_map, target, size) =>
                \A u \in {UnmapRange(Cur, target, size)} :
                    /\ Ok(u)
                    /\ VMAOf(u.vma_map, target).type = "Allocated"
                    /\ VMAOf(u.vma_map, target).size >= size

SizeAsserts ==
    {"AllocateMemory: vma.size == size", "MapBackingMemory: vma.size == size"}

(* C33: in every reachable state, AllocateSpace(gpu_addr, size) and        *)
(* MapBufferEx(cpu_addr, gpu_addr, size) with page-aligned gpu_addr and    *)
(* the page-aligned range inside the address space never fail the size     *)
(* assertion of AllocateMemory or MapBackingMemory.                        *)
C33_SizeAssertHolds ==
    Completed =>
        \A gpu_addr \in AlignedGpuAddrs, size \in Sizes :
            gpu_addr + AlignUp(size, page_size) <= address_space_end =>
                /\ AllocateSpaceAtOp(Cur, device_mapped, gpu_addr, size).s.asserted
                      \notin SizeAsserts
                /\ \A cpu_addr \in CpuAddrs :
                      MapBufferExAtOp(Cur, device_mapped, cpu_addr, gpu_addr, size).s.asserted
                          \notin SizeAsserts

(* The address addr lies in an Unmapped VMA of the map m. *)
InUnmapped(m, addr) == VMAOf(m, addr).type = "Unmapped"

(* No address leaves the Allocated and Mapped VMAs in a step. *)
NeverGivenBack ==
    \A addr \in GpuAddrs :
        ~InUnmapped(vma_map, addr) => ~InUnmapped(vma_map', addr)

(* An address-choosing call that completes returns an address of an        *)
(* Unmapped VMA of the map it was called on.                               *)
ChosenFromUnmapped ==
    Completed =>
        \A size \in Sizes :
            /\ \A r \in {AllocateSpaceOp(Cur, device_mapped, size)} :
                  Ok(r.s) => InUnmapped(vma_map, r.ret)
            /\ \A cpu_addr \in CpuAddrs :
                  \A r \in {MapBufferExOp(Cur, device_mapped, cpu_addr, size)} :
                      Ok(r.s) => InUnmapped(vma_map, r.ret)

(* C34: address space is never given back. No step of AllocateSpace,       *)
(* MapBufferEx or UnmapBuffer moves an address of an Allocated or Mapped   *)
(* VMA into an Unmapped VMA, and an address-choosing AllocateSpace or      *)
(* MapBufferEx that completes hands out an address that was Unmapped until *)
(* then, never one that was given out and unmapped before.                 *)
C34_NeverGivenBack == [][NeverGivenBack]_vars /\ []ChosenFromUnmapped

(* The guest address whose host memory starts at the host pointer ptr:     *)
(* the inverse of system.Memory().GetPointer.                              *)
GuestAddrOf(ptr) == CHOOSE cpu_addr \in 0 .. ptr : HostPtrOf(cpu_addr) = ptr

(* The guest pages whose host memory backs the Mapped VMA vma. *)
GuestPagesBacking(vma) == CpuPagesOf(GuestAddrOf(vma.backing_memory), vma.size)

(* C35: DeviceMapped tracks the GPU mappings. After any sequence of        *)
(* MapBufferEx and UnmapBuffer calls that completed, every guest page that *)
(* backs a Mapped VMA has DeviceMapped set; unmapping one of two mappings  *)
(* of the same cpu_addr leaves DeviceMapped set for the other.             *)
C35_DeviceMappedTracksMappings ==
    Completed =>
        \A key \in DOMAIN vma_map :
            vma_map[key].type = "Mapped" =>
                GuestPagesBacking(vma_map[key]) \subseteq device_mapped

(* C36: in every reachable state a page with a non-null pointer lies in a  *)
(* Mapped VMA and its pointer is vma.backing_memory + (p<<P - vma.base);   *)
(* no page of an Unmapped or Allocated VMA has a non-null pointer.         *)
C36_PointerOnlyWhereMapped ==
    Completed =>
        /\ \A p \in Pages :
            pointers[p] # NullPtr =>
                LET vma == VMAOf(vma_map, PageAddr(p))
                IN /\ vma.type = "Mapped"
                   /\ pointers[p] = vma.backing_memory + (PageAddr(p) - vma.base)
        /\ \A addr \in GpuAddrs :
               GetPointer(Cur, addr) # NullPtr =>
                   VMAOf(vma_map, addr).type = "Mapped"

(* A Mapped VMA of more than one page lies next to an Allocated VMA, with  *)
(* pointers on its pages and none on the pages of the Allocated one.       *)
C36_Witness ==
    /\ Completed
    /\ \E key \in DOMAIN vma_map :
          /\ vma_map[key].type = "Mapped"
          /\ vma_map[key].size > page_size
          /\ pointers[(key + page_size) \div page_size] # NullPtr
    /\ \E key \in DOMAIN vma_map :
          /\ vma_map[key].type = "Allocated"
          /\ pointers[key \div page_size] = NullPtr

----------------------------------------------------------------------------
(* CopyBlock against CopyBlockUnsafe.                                      *)

(* The GPU ranges [dest, dest + n) and [src, src + n) do not overlap. *)
GpuDisjoint(dest, src, n) == dest + n <= src \/ src + n <= dest

(* The bytes that the GPU range [a, a + n) shows in host memory mem. *)
BytesAt(s, mem, a, n) == [i \in 1 .. n |-> mem[GetPointer(s, a + i - 1)]]

(* CopyBlock, with any memcpy, and CopyBlockUnsafe complete with the same  *)
(* host memory: the destination shows the source bytes and the rest of     *)
(* host memory is as before; only CopyBlock makes callouts.                *)
SameCopy(dest, src, n) ==
    \A u \in {CopyBlockUnsafeOp(Cur, host_mem, dest, src, n)} :
        /\ Ok(u)
        /\ CalloutFree(u.ev)
        /\ \A kind \in MemcpyKinds :
              \A c \in {CopyBlockOp(Cur, host_mem, dest, src, n, kind)} :
                  /\ Ok(c)
                  /\ ~CalloutFree(c.ev)
                  /\ c.mem = u.mem
                  /\ BytesAt(Cur, c.mem, dest, n) = BytesAt(Cur, host_mem, src, n)
                  /\ \A h \in DOMAIN host_mem \ HostRange(Cur, dest, n) :
                        c.mem[h] = host_mem[h]

(* CopyBlockUnsafe leaves in the destination the bytes the source had      *)
(* before the call.                                                        *)
UnsafeCopiesOldSource(dest, src, n) ==
    \A u \in {CopyBlockUnsafeOp(Cur, host_mem, dest, src, n)} :
        /\ Ok(u)
        /\ BytesAt(Cur, u.mem, dest, n) = BytesAt(Cur, host_mem, src, n)

(* C37 as stated: for fully Mapped source and destination ranges that do   *)
(* not overlap, CopyBlock and CopyBlockUnsafe leave host memory in the     *)
(* same final state, the destination bytes equal to the source bytes and   *)
(* everything else unchanged, and differ only in the callouts; and         *)
(* CopyBlockUnsafe gives the destination the pre-call source bytes also    *)
(* when the ranges overlap.                                                *)
C37_CopyBlockMatchesUnsafe ==
    BlockLive =>
        \A dest \in GpuAddrs, src \in GpuAddrs, n \in BlockSizes :
            /\ InRange(dest, n) /\ InRange(src, n)
            /\ MappedRange(Cur, dest, n) /\ MappedRange(Cur, src, n)
            => /\ GpuDisjoint(dest, src, n) => SameCopy(dest, src, n)
               /\ UnsafeCopiesOldSource(dest, src, n)

----------------------------------------------------------------------------
(* RasterizerVulkan: draw batching.  scheduler_call is the call that the   *)
(* last operation made to the scheduler from FlushWork or FlushCommands.   *)

DRAWS_TO_DISPATCH == 4096

(* x & 7 of a u32. *)
BitAnd7(x) == x % 8

(* FlushWork on the counter value dc: the new value and the scheduler      *)
(* call.  The counter stays far below the width of a u32.                  *)
FlushWork(dc) ==
    LET incremented == dc + 1
    IN IF BitAnd7(incremented) # 7
       THEN [draw_counter |-> incremented, call |-> NoCall]
       ELSE IF incremented < DRAWS_TO_DISPATCH
       THEN [draw_counter |-> incremented, call |-> "DispatchWork"]
       ELSE [draw_counter |-> 0, call |-> "Flush"]

(* The manager and its environment, which the rasterizer's batching does   *)
(* not touch.                                                              *)
manager == <<vma_map, pointers, attributes, backing_addr, device_mapped,
             asserted, hist, recording, budget, io_left, host_mem, out_buffer,
             events>>

(* Draw, as far as the counter and the two scheduler calls go: it starts   *)
(* with FlushWork and does not touch the counter afterwards.               *)
Draw ==
    /\ \E w \in {FlushWork(draw_counter)} :
          /\ draw_counter' = w.draw_counter
          /\ scheduler_call' = w.call
    /\ UNCHANGED manager

FlushCommands ==
    /\ IF draw_counter > 0
       THEN draw_counter' = 0 /\ scheduler_call' = "Flush"
       ELSE draw_counter' = draw_counter /\ scheduler_call' = NoCall
    /\ UNCHANGED manager

TickFrame ==
    /\ draw_counter' = 0
    /\ scheduler_call' = NoCall
    /\ UNCHANGED manager

InitDraw == InitCommon /\ recording = FALSE /\ budget = 0 /\ io_left = 0

NextDraw == Draw \/ FlushCommands \/ TickFrame

SpecDraw == InitDraw /\ [][NextDraw]_vars

(* What the counter may be in any state. *)
CounterWithinDispatch == draw_counter <= DRAWS_TO_DISPATCH

(* What a step of the batching may do: a Draw calls the scheduler only on  *)
(* every 8th draw, DispatchWork while the counter is below                 *)
(* DRAWS_TO_DISPATCH and Flush with a reset otherwise; FlushCommands calls *)
(* Flush only when the counter is above 0 and leaves it 0.                 *)
BatchingStep ==
    /\ Draw =>
          /\ scheduler_call' # NoCall => BitAnd7(draw_counter + 1) = 7
          /\ scheduler_call' = "DispatchWork" =>
                draw_counter' = draw_counter + 1 /\ draw_counter' < DRAWS_TO_DISPATCH
          /\ scheduler_call' = "Flush" => draw_counter' = 0
          /\ draw_counter + 1 >= DRAWS_TO_DISPATCH => draw_counter' = 0
    /\ FlushCommands =>
          /\ scheduler_call' = "Flush" <=> draw_counter > 0
          /\ draw_counter' = 0

(* C38: over any sequence of Draw, FlushCommands and TickFrame calls the   *)
(* draw counter never exceeds DRAWS_TO_DISPATCH: FlushWork looks at the    *)
(* counter only on every 8th draw, calls DispatchWork while the counter is *)
(* below DRAWS_TO_DISPATCH, and calls scheduler.Flush and resets the       *)
(* counter no later than the DRAWS_TO_DISPATCH-th draw since the last      *)
(* reset; FlushCommands calls scheduler.Flush only when the counter is     *)
(* above 0 and leaves it 0.                                                *)
C38_DrawCounterBounded == []CounterWithinDispatch /\ [][BatchingStep]_vars

=============================================================================
